---------------------------- MODULE Spec2Model ----------------------------
(***************************************************************************)
(* Structured-data validation of lighthouse (schemarama-sd-validation):    *)
(*   helpers/utils.js   uniqueBy, stronglyConnectedComponents,             *)
(*                      quadsToShapes, getShape                            *)
(*   validator.js       ValidationReport (simplify, ...), ShexValidator    *)
(*   schema-validator.js recursiveValidate, validateSchemaOrg              *)
(*                                                                         *)
(* An n3 Store is modelled as the sequence of its (pairwise distinct)      *)
(* quads in the order the store iterates them; a Map as the sequence of    *)
(* its entries in insertion order; a Set as a set.                         *)
(***************************************************************************)
EXTENDS Integers, Sequences, FiniteSets, TLC

VARIABLES
    pc,          \* position of the running operation
    store,       \* the n3 Store handed to quadsToShapes
    components,  \* result of stronglyConnectedComponents(store)
    shapes,      \* result of quadsToShapes(store)
    recursion,   \* the recursion getShape took: [maxDepth, overflow, calls]
    rawReport,   \* the report of shex.Validator handed to ValidationReport
    validation,  \* what ShexValidator.validate made of jsonReport
    data,        \* validateSchemaOrg's argument: the items of the document
    itemIdx,     \* index of the item the for loop of validateSchemaOrg is at
    entityIdx,   \* index of the entry of shapes its inner for loop is at
    stack,       \* the running calls of recursiveValidate, innermost last
    report,      \* validateSchemaOrg's report
    error,       \* the error validateSchemaOrg threw
    calls,       \* history: the calls of shexValidator.validate
    returned,    \* history: the calls of recursiveValidate that returned
    attempts,    \* history: the parsers stringToQuads invoked for the item
    resolved,    \* res of stringToQuads: what the attempts resolved to so far
    uniqueItems, \* the items handed to uniqueBy
    uniqueKept   \* what uniqueBy returned

vars == <<pc, store, components, shapes, recursion, rawReport, validation,
          data, itemIdx, entityIdx, stack, report, error, calls, returned,
          attempts, resolved, uniqueItems, uniqueKept>>

\* the variables of validateSchemaOrg
validateVars == <<data, itemIdx, entityIdx, stack, report, error, calls, returned,
                  attempts, resolved, uniqueItems, uniqueKept>>

-----------------------------------------------------------------------------
(* Bounds of the model *)

\* number of distinct subject / non-literal object ids in a generated store
MaxNodes == 3
\* number of quads in a generated store
MaxTriples == 3

-----------------------------------------------------------------------------
(* RDF terms and quads (types/schemarama-structured-data.d.ts) *)

\* ids of NamedNode / BlankNode terms
NodeIds == 1..MaxNodes
\* id of the one literal of the model (an n3 literal id is a quoted string,
\* never the id of a node)
LiteralId == 0
\* JavaScript's undefined, where an id is expected
Undefined == -1

NamedNode(n) == [id |-> n, termType |-> "NamedNode"]
Literal == [id |-> LiteralId, termType |-> "Literal"]
Quad(s, p, o) == [subject |-> NamedNode(s), predicate |-> p, object |-> o]

\* a JavaScript string holding a node id (a key of the components / shapes maps)
Str(n) == [str |-> n]
\* x.id, for x a term or a string: a string has no property id
DotId(x) == IF "id" \in DOMAIN x THEN x.id ELSE Undefined
\* n3's conversion of a getQuads argument (a term or a string) to an id
ToId(x) == IF "str" \in DOMAIN x THEN x.str ELSE x.id

-----------------------------------------------------------------------------
(* n3 Store *)

Range(s) == {s[i] : i \in 1..Len(s)}

\* store.addQuad(quad): a store holds a quad once
AddQuad(st, quad) == IF quad \in Range(st) THEN st ELSE Append(st, quad)

RECURSIVE AddQuads(_, _, _)
\* for (const quad of quads) st.addQuad(quad), from index i on
AddQuads(st, quads, i) ==
    IF i > Len(quads) THEN st
    ELSE AddQuads(AddQuad(st, quads[i]), quads, i + 1)

\* store.getQuads(subject, undefined, undefined)
GetQuadsOfSubject(st, id) == SelectSeq(st, LAMBDA q : q.subject.id = id)
\* store.getQuads(undefined, undefined, object)
GetQuadsOfObject(st, id) == SelectSeq(st, LAMBDA q : q.object.id = id)
\* store.getQuads(subject, predicate, undefined)
GetQuadsOfSubjectPredicate(st, id, p) ==
    SelectSeq(st, LAMBDA q : q.subject.id = id /\ q.predicate = p)

RECURSIVE Uniq(_, _, _)
\* [...new Set(seq)]: first occurrences, in order
Uniq(seq, i, acc) ==
    IF i > Len(seq) THEN acc
    ELSE Uniq(seq, i + 1, IF seq[i] \in Range(acc) THEN acc ELSE Append(acc, seq[i]))

\* store.getSubjects().map(x => x.id)
GetSubjects(st) == [i \in 1..Len(st) |-> st[i].subject.id]

-----------------------------------------------------------------------------
(* stronglyConnectedComponents (helpers/utils.js) *)

\* Mutant of SubjectNodes: the non-literal objects are nodes too
SubjectAndObjectNodes(st) ==
    Uniq(GetSubjects(st) \o
         [i \in 1..Len(SelectSeq(st, LAMBDA q : q.object.termType # "Literal")) |->
             SelectSeq(st, LAMBDA q : q.object.termType # "Literal")[i].object.id],
         1, <<>>)

\* const nodes = [...new Set(store.getSubjects().map(x => x.id))]
SubjectNodes(st) == Uniq(GetSubjects(st), 1, <<>>)

RECURSIVE forwardDfs(_, _, _, _)
RECURSIVE forwardDfsLoop(_, _, _, _, _)
\* forwardDfs(vertex); s = [used, order], used the set of ids mapped to true
forwardDfs(st, nodes, vertex, s) ==
    LET s1 == [s EXCEPT !.used = @ \cup {vertex}]
        s2 == forwardDfsLoop(st, nodes, GetQuadsOfSubject(st, vertex), 1, s1)
    IN  [s2 EXCEPT !.order = Append(@, vertex)]

\* the quad at index i on of forwardDfs's for loop
forwardDfsLoop(st, nodes, quads, i, s) ==
    IF i > Len(quads) THEN s
    ELSE LET quad == quads[i] IN
         IF /\ quad.object.termType # "Literal"
            /\ quad.object.id \in Range(nodes)
            /\ quad.object.id \notin s.used
         THEN forwardDfsLoop(st, nodes, quads, i + 1,
                             forwardDfs(st, nodes, quad.object.id, s))
         ELSE forwardDfsLoop(st, nodes, quads, i + 1, s)

RECURSIVE backwardDfs(_, _, _)
RECURSIVE backwardDfsLoop(_, _, _, _)
\* backwardDfs(vertex); s = [used, component]
backwardDfs(st, vertex, s) ==
    LET s1 == [used |-> s.used \cup {vertex},
               component |-> Append(s.component, vertex)]
    IN  backwardDfsLoop(st, GetQuadsOfObject(st, vertex), 1, s1)

\* the quad at index i on of backwardDfs's for loop
backwardDfsLoop(st, quads, i, s) ==
    IF i > Len(quads) THEN s
    ELSE LET quad == quads[i] IN
         IF quad.subject.id \notin s.used
         THEN backwardDfsLoop(st, quads, i + 1, backwardDfs(st, quad.subject.id, s))
         ELSE backwardDfsLoop(st, quads, i + 1, s)

\* components.has(id)
MapHas(m, id) == \E k \in 1..Len(m) : m[k].node = id
\* the index of id's entry in a map that has it
MapGet(m, id) == CHOOSE k \in 1..Len(m) : m[k].node = id
\* components.get(id), for an id the map has
ComponentOf(m, id) == m[MapGet(m, id)].component
\* components.set(id, idx): a Map keeps a key once, at its first position
MapSet(m, id, idx) ==
    IF MapHas(m, id) THEN [m EXCEPT ![MapGet(m, id)].component = idx]
    ELSE Append(m, [node |-> id, component |-> idx])

RECURSIVE MapSetAll(_, _, _, _)
\* component.forEach(x => components.set(x, componentIdx))
MapSetAll(m, component, k, idx) ==
    IF k > Len(component) THEN m
    ELSE MapSetAll(MapSet(m, component[k], idx), component, k + 1, idx)

RECURSIVE forwardPass(_, _, _, _)
\* for (const node of nodes) if (!used.get(node)) forwardDfs(node)
forwardPass(st, nodes, i, s) ==
    IF i > Len(nodes) THEN s
    ELSE forwardPass(st, nodes, i + 1,
                     IF nodes[i] \notin s.used THEN forwardDfs(st, nodes, nodes[i], s)
                     ELSE s)

RECURSIVE backwardPass(_, _, _, _, _)
\* for (let i = 0; i < nodes.length; i++) { const node = order[nodes.length - 1 - i]; ... }
\* (i counts from 0 as in the code; sequences are 1-based);
\* s = [used, components, componentIdx], components the Map as the sequence of
\* its entries [node, component]
backwardPass(st, nodes, order, i, s) ==
    IF ~(i < Len(nodes)) THEN s
    ELSE LET node == order[Len(nodes) - 1 - i + 1] IN
         IF node \notin s.used
         THEN LET b == backwardDfs(st, node, [used |-> s.used, component |-> <<>>])
              IN  backwardPass(st, nodes, order, i + 1,
                      [used |-> b.used,
                       components |-> MapSetAll(s.components, b.component, 1,
                                                s.componentIdx),
                       componentIdx |-> s.componentIdx + 1])
         ELSE backwardPass(st, nodes, order, i + 1, s)

\* Mutant of stronglyConnectedComponents: the second pass takes the nodes in
\* finishing order instead of reverse finishing order
stronglyConnectedComponentsFinishingOrder(st) ==
    LET nodes == SubjectNodes(st)
        fwd == forwardPass(st, nodes, 1, [used |-> {}, order |-> <<>>])
        bwd == backwardPass(st, nodes,
                            [k \in 1..Len(fwd.order) |-> fwd.order[Len(fwd.order) + 1 - k]],
                            0, [used |-> {}, components |-> <<>>, componentIdx |-> 0])
    IN  bwd.components

\* the Map returned by stronglyConnectedComponents(store)
stronglyConnectedComponents(st) ==
    LET nodes == SubjectNodes(st)
        fwd == forwardPass(st, nodes, 1, [used |-> {}, order |-> <<>>])
        bwd == backwardPass(st, nodes, fwd.order, 0,
                            [used |-> {}, components |-> <<>>, componentIdx |-> 0])
    IN  bwd.components

-----------------------------------------------------------------------------
(* getShape, quadsToShapes (helpers/utils.js) *)

\* Depth at which the model stops following getShape's recursion and reports
\* it as unbounded; a store of MaxTriples quads has at most MaxTriples subjects
DepthCap == 2 * MaxTriples + 4

\* shapes.get(key), shapes the Map as the sequence of its entries [key, value]:
\* the entries whose key is the same value as key
ShapesGet(shapesMap, key) == SelectSeq(shapesMap, LAMBDA e : e.key = key)

\* parsed.includes(id)
Includes(parsed, id) == \E k \in 1..Len(parsed) : parsed[k] = id

\* Mutant of AlreadyParsed: no cycle guard
NeverParsed(quad, parsed) == FALSE

\* if (quad.object.termType !== 'Literal' && parsed.includes(quad.object.id)) continue
AlreadyParsed(quad, parsed) ==
    quad.object.termType # "Literal" /\ Includes(parsed, quad.object.id)

\* Mutant of PushNested: the nested store is not spliced in
PushNestedNothing(shapeQuads, nested) == shapeQuads

\* Mutant of PushNested: a nested store of one quad is not spliced in
PushNestedOverOne(shapeQuads, nested) ==
    IF nested.defined /\ Len(nested.quads) > 1 THEN shapeQuads \o nested.quads
    ELSE shapeQuads

\* if (nestedStore && nestedStore.getQuads().length > 0)
\*   shapeQuads.push(...nestedStore.getQuads())
PushNested(shapeQuads, nested) ==
    IF nested.defined /\ Len(nested.quads) > 0 THEN shapeQuads \o nested.quads
    ELSE shapeQuads

RECURSIVE getShapeAt(_, _, _, _, _)
RECURSIVE getShapeLoop(_, _, _, _, _, _)
\* getShape(id, store, shapes, parsed), called at recursion depth `depth`.
\* Returns [defined, quads]: the returned Store (defined = FALSE for
\* undefined), with parsed: the array as the call leaves it, maxDepth: the
\* deepest call made, overflow: the recursion passed DepthCap.
getShapeAt(id, st, shapesMap, parsed, depth) ==
    IF depth > DepthCap
    THEN [defined |-> FALSE, quads |-> <<>>, parsed |-> parsed,
          maxDepth |-> depth, overflow |-> TRUE]
    ELSE
    LET parsed1 == Append(parsed, DotId(id))
        shapeQuads == GetQuadsOfSubject(st, ToId(id))
    IN  IF Len(shapeQuads) = 0
        THEN [defined |-> FALSE, quads |-> <<>>, parsed |-> parsed1,
              maxDepth |-> depth, overflow |-> FALSE]
        ELSE LET a == getShapeLoop(st, shapesMap, GetQuadsOfSubject(st, ToId(id)), 1,
                                   [shapeQuads |-> shapeQuads, parsed |-> parsed1,
                                    maxDepth |-> depth, overflow |-> FALSE],
                                   depth)
             IN  [defined |-> TRUE, quads |-> AddQuads(<<>>, a.shapeQuads, 1),
                  parsed |-> a.parsed, maxDepth |-> a.maxDepth,
                  overflow |-> a.overflow]

\* the quad at index i on of getShape's for loop; a = [shapeQuads, parsed, ...]
getShapeLoop(st, shapesMap, quads, i, a, depth) ==
    IF i > Len(quads) THEN a
    ELSE LET quad == quads[i] IN
         IF AlreadyParsed(quad, a.parsed)
         THEN getShapeLoop(st, shapesMap, quads, i + 1, a, depth)
         ELSE LET found == ShapesGet(shapesMap, quad.object)
                  nested == IF Len(found) > 0 /\ found[1].defined
                            THEN [defined |-> TRUE, quads |-> found[1].value,
                                  parsed |-> a.parsed, maxDepth |-> depth,
                                  overflow |-> FALSE]
                            ELSE getShapeAt(quad.object, st, shapesMap, a.parsed,
                                            depth + 1)
                  md == IF nested.maxDepth > a.maxDepth THEN nested.maxDepth
                        ELSE a.maxDepth
              IN  getShapeLoop(st, shapesMap, quads, i + 1,
                      [shapeQuads |-> PushNested(a.shapeQuads, nested),
                       parsed |-> nested.parsed,
                       maxDepth |-> md,
                       overflow |-> a.overflow \/ nested.overflow],
                      depth)

\* getShape(id, store, shapes, parsed)
getShape(id, st, shapesMap, parsed) == getShapeAt(id, st, shapesMap, parsed, 1)

\* Mutant of PointsIntoOtherComponent: no component is demoted
PointsIntoNoComponent(quad, comps) == FALSE

\* Mutant of PointsIntoOtherComponent: the components are not compared
PointsIntoAnyComponent(quad, comps) ==
    /\ quad.object.termType # "Literal"
    /\ MapHas(comps, quad.subject.id)
    /\ MapHas(comps, quad.object.id)

\* the condition under which quadsToShapes adds the component of a quad's
\* object to notRoot
PointsIntoOtherComponent(quad, comps) ==
    /\ quad.object.termType # "Literal"
    /\ MapHas(comps, quad.subject.id)
    /\ MapHas(comps, quad.object.id)
    /\ ComponentOf(comps, quad.subject.id) # ComponentOf(comps, quad.object.id)

RECURSIVE notRootLoop(_, _, _, _)
\* the first for loop of quadsToShapes: the Set notRoot
notRootLoop(quads, comps, i, notRoot) ==
    IF i > Len(quads) THEN notRoot
    ELSE LET quad == quads[i] IN
         notRootLoop(quads, comps, i + 1,
             IF PointsIntoOtherComponent(quad, comps)
             THEN notRoot \cup {ComponentOf(comps, quad.object.id)}
             ELSE notRoot)

RECURSIVE shapesLoop(_, _, _, _)
\* the second for loop of quadsToShapes, over components.entries();
\* s = [notRoot, shapes, maxDepth, overflow, calls], shapes the Map as the
\* sequence of its entries, calls the lengths of the parsed arrays
shapesLoop(st, comps, i, s) ==
    IF i > Len(comps) THEN s
    ELSE IF comps[i].component \notin s.notRoot
         THEN LET r == getShape(Str(comps[i].node), st, s.shapes, <<>>)
              IN  shapesLoop(st, comps, i + 1,
                      [notRoot |-> s.notRoot \cup {comps[i].component},
                       shapes |-> Append(s.shapes,
                                         [key |-> Str(comps[i].node),
                                          defined |-> r.defined,
                                          value |-> r.quads]),
                       maxDepth |-> IF r.maxDepth > s.maxDepth THEN r.maxDepth
                                    ELSE s.maxDepth,
                       overflow |-> s.overflow \/ r.overflow,
                       calls |-> Append(s.calls, Len(r.parsed))])
         ELSE shapesLoop(st, comps, i + 1, s)

\* quadsToShapes(store) with the recursion it took
quadsToShapesRun(st) ==
    LET comps == stronglyConnectedComponents(st)
        notRoot == notRootLoop(st, comps, 1, {})
    IN  shapesLoop(st, comps, 1,
                   [notRoot |-> notRoot, shapes |-> <<>>, maxDepth |-> 0,
                    overflow |-> FALSE, calls |-> <<>>])

\* the Map returned by quadsToShapes(store)
quadsToShapes(st) == quadsToShapesRun(st).shapes

-----------------------------------------------------------------------------
(* JavaScript values of the validation report (validator.js) *)

\* JavaScript's undefined where a string is expected; appended to a string
\* it reads "undefined"
Undef == "undefined"
\* x is truthy (x a string or undefined)
Truthy(x) == x # Undef /\ x # ""
\* a || b
Or(a, b) == IF Truthy(a) THEN a ELSE b

\* rdf('type')
RdfType == "http://www.w3.org/1999/02/22-rdf-syntax-ns#type"

\* An array is [items |-> <<...>>]; a ReportItem (types/shexjs/core.d.ts) is
\* a record with the fields of RawNode, Undef standing for an absent field,
\* constraint.predicate, triple.subject and ctx.predicate flattened, and
\* unexpectedTriples the sequence of the triples' predicates.
Arr(items) == [items |-> items]
IsArray(x) == "items" \in DOMAIN x
RawNode(type, property, node, shape, errors) ==
    [type |-> type, property |-> property, node |-> node, shape |-> shape,
     errors |-> Arr(errors), constraintPredicate |-> Undef,
     tripleSubject |-> Undef, ctxPredicate |-> Undef, code |-> Undef,
     unexpectedTriples |-> <<>>]

\* no error thrown
NoError == "none"

-----------------------------------------------------------------------------
(* formatString (helpers/utils.js), localization messages *)

\* A template is the sequence of its pieces; "{" and "}" are pieces of their
\* own and no other piece holds a brace.
RECURSIVE Join(_, _, _)
\* the pieces i..j of t as one string
Join(t, i, j) == IF i > j THEN "" ELSE t[i] \o Join(t, i + 1, j)

\* replacer(match, val): args[val] || '' if args has the key val, else match
Replacer(match, val, args) ==
    IF val \in DOMAIN args THEN Or(args[val], "") ELSE match

\* s.replace(/{(.+)}/g, replacer): the match starts at the first "{" that has
\* a "}" at least one character later and, .+ being greedy, ends at the last
\* "}" of the string, so there is at most one match
formatString(t, args) ==
    LET closes == {j \in 1..Len(t) : t[j] = "}"}
        opens == {i \in 1..Len(t) :
                    t[i] = "{" /\ \E j \in closes : j > i + 1}
    IN  IF opens = {} THEN Join(t, 1, Len(t))
        ELSE LET i == CHOOSE o \in opens : \A o2 \in opens : o <= o2
                 j == CHOOSE c \in closes : \A c2 \in closes : c2 <= c
             IN  Join(t, 1, i - 1)
                 \o Replacer(Join(t, i, j), Join(t, i + 1, j - 1), args)
                 \o Join(t, j + 1, Len(t))

\* localization.messages['failureTypes'] (assets/localization/messages/en.json)
failureMessages ==
    [TypeMismatch |->
        <<"Value provided for property ", "{", "property", "}",
          " has an unexpected type">>,
     MissingProperty |-> <<"Property ", "{", "property", "}", " not found">>,
     ClosedShapeViolation |-> <<"Unexpected property ", "{", "property", "}">>,
     BooleanSemActFailure |->
        <<"Property ", "{", "property", "}", " failed semantic action with code js:'",
          "{", "code", "}", "'">>]

\* localization.messages['severity']
severityMessages == [error |-> "error", warning |-> "warning"]

-----------------------------------------------------------------------------
(* ValidationReport.simplify (validator.js) *)

\* STEP 1: the report is dropped
Dropped(r) ==
    \/ ~Truthy(r.type)
    \/ r.type = "ShapeAndResults"
    \/ r.type = "ShapeOrResults"
    \/ r.property = RdfType
    \/ r.constraintPredicate = RdfType
    \/ r.type = "NodeConstraintViolation"
    \/ r.type = "ShapeOrFailure"
    \/ r.type = "ShapeTest"

\* STEP 2: the report is an intermediate nested structure
Nested(r) ==
    \/ r.type = "ShapeAndFailure"
    \/ r.type = "Failure"
    \/ r.type = "SemActFailure"
    \/ r.type = "FailureList"
    \/ r.type = "ExtendedResults"
    \/ r.type = "ExtensionFailure"
    \/ (~Truthy(r.type) /\ "errors" \in DOMAIN r)

\* Mutant of NestedShape: the shape of the outermost container wins
OutermostShape(r, parentShape) == Or(parentShape, r.shape)

\* jsonReport.shape || parentShape: the shape handed to the nested errors
NestedShape(r, parentShape) == Or(r.shape, parentShape)

\* STEP 3: one failure per unexpected triple
ClosedShapeFailures(r, parentNode, parentShape) ==
    [k \in 1..Len(r.unexpectedTriples) |->
        [type |-> r.type,
         property |-> r.unexpectedTriples[k],
         message |-> formatString(failureMessages[r.type],
                                  [property |-> Or(r.unexpectedTriples[k], "")]),
         node |-> Or(parentNode, ""),
         shape |-> parentShape,
         severity |-> "error"]]

\* STEP 4: const failure = {...}
NewFailure(r, parentNode, parentShape) ==
    [type |-> r.type,
     property |-> Or(r.property, r.constraintPredicate),
     message |-> "",
     node |-> Or(Or(r.tripleSubject, parentNode), ""),
     shape |-> Or(parentShape, ""),
     severity |-> "error"]

\* the value of the case label 'MissingProperty' || 'ExcessTripleViolation' || 'NegatedProperty'
MissingPropertyCase == Or("MissingProperty", Or("ExcessTripleViolation", "NegatedProperty"))

\* the error simplify throws for a type its switch does not handle
ShexValidationError == "ShexValidationError"

RECURSIVE simplify(_, _, _, _)
RECURSIVE simplifyEach(_, _, _, _, _)
\* this.simplify(jsonReport, parentNode, parentShape); st = [failures, error]:
\* this.failures and the error thrown so far (nothing runs after a throw)
simplify(jsonReport, parentNode, parentShape, st) ==
    IF st.error # NoError THEN st
    ELSE IF IsArray(jsonReport)
    THEN simplifyEach(jsonReport.items, 1, parentNode, parentShape, st)
    ELSE IF Dropped(jsonReport) THEN st
    ELSE IF Nested(jsonReport)
    THEN simplify(jsonReport.errors, Or(jsonReport.node, parentNode),
                  NestedShape(jsonReport, parentShape), st)
    ELSE IF jsonReport.type = "ClosedShapeViolation"
    THEN [st EXCEPT !.failures =
                @ \o ClosedShapeFailures(jsonReport, parentNode, parentShape)]
    ELSE LET failure == NewFailure(jsonReport, parentNode, parentShape) IN
         IF jsonReport.type = "TypeMismatch"
         THEN LET f == [failure EXCEPT !.message =
                            formatString(failureMessages[jsonReport.type], failure)]
                  st1 == simplify(jsonReport.errors, Undef, Undef, st)
              IN  IF st1.error # NoError THEN st1
                  ELSE [st1 EXCEPT !.failures = Append(@, f)]
         ELSE IF jsonReport.type = MissingPropertyCase
         THEN [st EXCEPT !.failures = Append(@,
                  [failure EXCEPT !.message =
                      formatString(failureMessages[jsonReport.type], failure)])]
         ELSE IF jsonReport.type = "BooleanSemActFailure"
         THEN IF ~Truthy(jsonReport.ctxPredicate) THEN st
              ELSE [st EXCEPT !.failures = Append(@,
                       [failure EXCEPT !.message =
                           formatString(failureMessages[jsonReport.type],
                                        [property |-> failure.property,
                                         code |-> jsonReport.code])])]
         ELSE [st EXCEPT !.error = ShexValidationError]

\* for (const subReport of jsonReport) this.simplify(subReport, parentNode, parentShape)
simplifyEach(items, i, parentNode, parentShape, st) ==
    IF i > Len(items) THEN st
    ELSE simplifyEach(items, i + 1, parentNode, parentShape,
                      simplify(items[i], parentNode, parentShape, st))

-----------------------------------------------------------------------------
(* ValidationReport.removeMissingIfTypeMismatch (validator.js) *)

\* s without its element at index i
RemoveAt(seq, i) == [k \in 1..(Len(seq) - 1) |-> IF k < i THEN seq[k] ELSE seq[k + 1]]

\* Mutant of removeMissingLoop: every MissingProperty on the property of a
\* TypeMismatch is removed
removeEveryMissing(typeMismatches, i, failures) ==
    SelectSeq(failures,
              LAMBDA x : ~(/\ x.type = "MissingProperty"
                           /\ \E k \in 1..Len(typeMismatches) :
                                 typeMismatches[k].property = x.property))

RECURSIVE removeMissingLoop(_, _, _)
\* the for loop over typeMismatches: the first remaining MissingProperty on
\* the TypeMismatch's property is the object pushed to missingFailures and
\* filtered out of this.failures (includes compares object identity, so no
\* other failure is removed with it)
removeMissingLoop(typeMismatches, i, failures) ==
    IF i > Len(typeMismatches) THEN failures
    ELSE LET hits == {k \in 1..Len(failures) :
                        /\ failures[k].property = typeMismatches[i].property
                        /\ failures[k].type = "MissingProperty"}
         IN  removeMissingLoop(typeMismatches, i + 1,
                 IF hits = {} THEN failures
                 ELSE RemoveAt(failures, CHOOSE k \in hits : \A h \in hits : k <= h))

\* this.removeMissingIfTypeMismatch()
removeMissingIfTypeMismatch(failures) ==
    removeMissingLoop(SelectSeq(failures, LAMBDA x : x.type = "TypeMismatch"), 1, failures)

-----------------------------------------------------------------------------
(* Static configuration of schema-validator.js: namespaces, hierarchy,     *)
(* shapes, annotations, localization                                       *)

SchemaNs == "http://schema.org/"
ShexNs == "http://schema.org/shex#"
RdfsLabel == "http://www.w3.org/2000/01/rdf-schema#label"

\* the properties the shapes of the model constrain
PropName == SchemaNs \o "name"
PropText == SchemaNs \o "text"

\* hierarchy (assets/hierarchy.json): Schema -> [Google -> [GoogleAds], Bing]
hierarchy ==
    [service |-> "Schema",
     nested |-> <<[service |-> "Google",
                   nested |-> <<[service |-> "GoogleAds", nested |-> <<>>]>>],
                  [service |-> "Bing", nested |-> <<>>]>>]

\* shex(`Valid${service}${type}`)
StartShape(service, type) == ShexNs \o "Valid" \o service \o type

\* the annotations the shapes declare on the property text: the severity
\* "warning", a description and a label
TextAnnotations ==
    <<[predicate |-> SchemaNs \o "identifier", object |-> "warning"],
      [predicate |-> SchemaNs \o "description", object |-> "Text of the thing"],
      [predicate |-> RdfsLabel, object |-> "label-text"]>>

\* A shape of assets/shexj.json for startShape id: name is required and not
\* annotated, text is annotated
ShapeFor(id) ==
    [type |-> "Shape", id |-> id,
     expression |->
        [type |-> "EachOf",
         expressions |->
            <<[type |-> "TripleConstraint", predicate |-> PropName],
              [type |-> "TripleConstraint", predicate |-> PropText,
               annotations |-> TextAnnotations]>>]]

\* shapes.shapes (assets/shexj.json): every service has a shape for Thing,
\* only Schema and GoogleAds have one for Event
shapesSchema ==
    <<ShapeFor(StartShape("Schema", "Thing")),
      ShapeFor(StartShape("Google", "Thing")),
      ShapeFor(StartShape("GoogleAds", "Thing")),
      ShapeFor(StartShape("Bing", "Thing")),
      ShapeFor(StartShape("Schema", "Event")),
      [type |-> "ShapeAnd", id |-> StartShape("GoogleAds", "Event"),
       shapeExprs |-> <<[reference |-> StartShape("Schema", "Event")],
                        ShapeFor(StartShape("GoogleAds", "Event"))>>]>>

\* const shapeIds = shapes.shapes.map(shape => shape.id)
shapeIds == {shapesSchema[k].id : k \in 1..Len(shapesSchema)}

\* const annotations = {url, description, severity}, as its entries
annotations ==
    <<[key |-> "url", value |-> SchemaNs \o "url"],
      [key |-> "description", value |-> SchemaNs \o "description"],
      [key |-> "severity", value |-> SchemaNs \o "identifier"]>>

\* localization.getAnnotations(locale) (assets/localization/annotations):
\* label id -> entries; hasAt: the key includes '@'
localeAnnotations ==
    [id \in {"label-text"} |->
        <<[key |-> "shape", hasAt |-> TRUE, val |-> "Thing"],
          [key |-> "property", hasAt |-> TRUE, val |-> "text"],
          [key |-> "description", hasAt |-> FALSE, val |-> "Text is recommended"]>>]

-----------------------------------------------------------------------------
(* getShapeCore, getAnnotations, addLocalizedAnnotations,                  *)
(* toStructuredDataReport (validator.js)                                   *)

\* node.f, Undef-like (an empty record) when node has no property f
Has(node, f) == f \in DOMAIN node

RECURSIVE getShapeCore(_)
RECURSIVE firstShapeCore(_, _)
\* getShapeCore(node): [found, shape]
getShapeCore(node) ==
    IF Has(node, "type") /\ node.type = "Shape" THEN [found |-> TRUE, shape |-> node]
    ELSE IF Has(node, "shapeExprs") THEN firstShapeCore(node.shapeExprs, 1)
    ELSE [found |-> FALSE]

\* nodes[0] of the mapped and filtered shapeExprs, from index i on
firstShapeCore(shapeExprs, i) ==
    IF i > Len(shapeExprs) THEN [found |-> FALSE]
    ELSE LET c == getShapeCore(shapeExprs[i])
         IN  IF c.found THEN c ELSE firstShapeCore(shapeExprs, i + 1)

\* this.shapes.get(shape): the core of the last shape of the schema with that id
ShapeCoreOf(schema, shape) ==
    LET ks == {k \in 1..Len(schema) : schema[k].id = shape}
    IN  IF ks = {} THEN [found |-> FALSE]
        ELSE getShapeCore(schema[CHOOSE k \in ks : \A h \in ks : h <= k])

\* getAnnotations(shape, property): the Map as the sequence of the
\* annotations set, in order (a later one with the same predicate wins)
getAnnotations(schema, shape, property) ==
    LET shapeObj == ShapeCoreOf(schema, shape) IN
    IF ~shapeObj.found \/ ~Has(shapeObj.shape, "expression") THEN <<>>
    ELSE LET expression == shapeObj.shape.expression
             props == IF Has(expression, "expressions")
                      THEN SelectSeq(expression.expressions,
                                     LAMBDA x : x.predicate = property)
                      ELSE IF Has(expression, "predicate") /\ expression.predicate = property
                      THEN <<expression>>
                      ELSE <<>>
         IN  IF Len(props) = 0 \/ ~Has(props[1], "annotations") THEN <<>>
             ELSE props[1].annotations

\* mapper.has(predicate)
AnnotationHas(mapper, predicate) == \E k \in 1..Len(mapper) : mapper[k].predicate = predicate
\* mapper.get(predicate)
AnnotationGet(mapper, predicate) ==
    LET ks == {k \in 1..Len(mapper) : mapper[k].predicate = predicate}
    IN  IF ks = {} THEN Undef ELSE mapper[CHOOSE k \in ks : \A h \in ks : h <= k].object

RECURSIVE setLocalized(_, _, _)
\* for (const [key, val] of entries) if (!key.includes('@')) failure[key] = val
setLocalized(failure, entries, i) ==
    IF i > Len(entries) THEN failure
    ELSE setLocalized(IF ~entries[i].hasAt
                      THEN [failure EXCEPT ![entries[i].key] = entries[i].val]
                      ELSE failure,
                      entries, i + 1)

\* addLocalizedAnnotations(failure, id)
addLocalizedAnnotations(localized, failure, id) ==
    IF id \notin DOMAIN localized THEN failure
    ELSE setLocalized(failure, localized[id], 1)

RECURSIVE setAnnotations(_, _, _, _)
\* for (const [key, value] of Object.entries(this.annotations)) { ... }
setAnnotations(failure, shapeAnnotations, annots, i) ==
    IF i > Len(annots) THEN failure
    ELSE LET annotation == Or(AnnotationGet(shapeAnnotations, annots[i].value),
                              failure[annots[i].key])
         IN  setAnnotations(IF Truthy(annotation)
                            THEN [failure EXCEPT ![annots[i].key] = annotation]
                            ELSE failure,
                            shapeAnnotations, annots, i + 1)

\* the callback of this.failures.map in toStructuredDataReport; config =
\* [schema, annotations, hasAnnotations, localized]; a Failure has the
\* fields below, Undef standing for an absent one
toFailure(config, err) ==
    LET failure == [property |-> err.property, message |-> err.message,
                    shape |-> err.shape, node |-> err.node, severity |-> "error",
                    url |-> Undef, description |-> Undef,
                    severityLabel |-> Undef, service |-> Undef]
        shapeAnnotations == getAnnotations(config.schema, err.shape, err.property)
        annotated ==
            IF Truthy(err.shape) /\ Truthy(err.property) /\ config.hasAnnotations
            THEN LET f1 == setAnnotations(failure, shapeAnnotations, config.annotations, 1)
                 IN  IF AnnotationHas(shapeAnnotations, RdfsLabel)
                     THEN addLocalizedAnnotations(config.localized, f1,
                              Or(AnnotationGet(shapeAnnotations, RdfsLabel), ""))
                     ELSE f1
            ELSE failure
    IN  [annotated EXCEPT !.severityLabel =
            IF annotated.severity \in DOMAIN severityMessages
            THEN severityMessages[annotated.severity] ELSE Undef]

\* toStructuredDataReport()
toStructuredDataReport(config, failures) ==
    [k \in 1..Len(failures) |-> toFailure(config, failures[k])]

\* ShexValidator.validate(data, shape, options) for the report jsonReport of
\* shex.Validator: [error, simplified, removed, failures]: the error thrown,
\* this.failures after simplify and after removeMissingIfTypeMismatch, and
\* the failures returned
ShexValidate(config, jsonReport) ==
    LET st == simplify(jsonReport, Undef, Undef, [failures |-> <<>>, error |-> NoError])
        removed == removeMissingIfTypeMismatch(st.failures)
    IN  IF st.error # NoError
        THEN [error |-> st.error, simplified |-> st.failures, removed |-> <<>>,
              failures |-> <<>>]
        ELSE [error |-> NoError, simplified |-> st.failures, removed |-> removed,
              failures |-> toStructuredDataReport(config, removed)]

\* the validator schema-validator.js constructs (shexValidator)
ValidatorConfig ==
    [schema |-> shapesSchema, annotations |-> annotations, hasAnnotations |-> TRUE,
     localized |-> localeAnnotations]

-----------------------------------------------------------------------------
(* Shape extraction of one store: SpecShapes *)

\* predicates of the generated stores
GraphPredicates == {"p"}
\* the quads a generated store may hold
GraphQuads ==
    {Quad(s, p, o) : s \in NodeIds, p \in GraphPredicates,
                     o \in {NamedNode(n) : n \in NodeIds} \cup {Literal}}

\* every store of at most MaxTriples distinct quads, in every iteration order
StoresUpTo(quads, n) ==
    {st \in UNION {[1..k -> quads] : k \in 0..n} :
        \A i, j \in 1..Len(st) : i < j => st[i] # st[j]}
StoresOf(quads) == StoresUpTo(quads, MaxTriples)

\* the variables of validateSchemaOrg before it is called
IdleValidate ==
    /\ data = <<>>
    /\ itemIdx = 1
    /\ entityIdx = 1
    /\ stack = <<>>
    /\ report = <<>>
    /\ error = NoError
    /\ calls = <<>>
    /\ returned = <<>>
    /\ attempts = <<>>
    /\ resolved = [defined |-> FALSE, store |-> <<>>]
    /\ uniqueItems = <<>>
    /\ uniqueKept = <<>>

\* the variables of ShexValidator.validate before it is called
IdleReport ==
    /\ rawReport = Arr(<<>>)
    /\ validation = [error |-> NoError, simplified |-> <<>>, removed |-> <<>>,
                     failures |-> <<>>]

InitShapes ==
    /\ pc = "start"
    /\ store \in StoresOf(GraphQuads)
    /\ components = <<>>
    /\ shapes = <<>>
    /\ recursion = [maxDepth |-> 0, overflow |-> FALSE, calls |-> <<>>]
    /\ IdleReport
    /\ IdleValidate

\* const shapes = utils.quadsToShapes(store)
QuadsToShapes ==
    /\ pc = "start"
    /\ LET r == quadsToShapesRun(store) IN
        /\ components' = stronglyConnectedComponents(store)
        /\ shapes' = r.shapes
        /\ recursion' = [maxDepth |-> r.maxDepth, overflow |-> r.overflow,
                         calls |-> r.calls]
    /\ pc' = "done"
    /\ UNCHANGED <<store, rawReport, validation, validateVars>>

NextShapes == QuadsToShapes

SpecShapes == InitShapes /\ [][NextShapes]_vars

-----------------------------------------------------------------------------
(* One call of ShexValidator.validate on a report of shex.Validator:       *)
(* SpecReport                                                              *)

\* nodes of the generated raw reports
MaxReportNodes == 3

\* focus nodes and shapes the containers of a generated report name
ReportNode == "http://example.org/recipe"
ReportSubject == "http://example.org/author"
ReportShape == StartShape("Schema", "Thing")
ReportShapeNested == StartShape("GoogleAds", "Event")
\* a type simplify's code does not name
UnknownType == "UnknownFailure"

\* the generated ReportItems that have no nested errors
LeafReports ==
    {RawNode(t, p, Undef, Undef, <<>>) :
        t \in {"TypeMismatch", "MissingProperty"}, p \in {PropName, PropText}}
    \cup {RawNode(t, PropName, Undef, Undef, <<>>) :
            t \in {"ExcessTripleViolation", "NegatedProperty", UnknownType,
                   "NodeConstraintViolation"}}
    \cup {RawNode("MissingProperty", RdfType, Undef, Undef, <<>>),
          [RawNode("MissingProperty", Undef, Undef, Undef, <<>>)
              EXCEPT !.constraintPredicate = PropName],
          [RawNode("MissingProperty", PropName, Undef, Undef, <<>>)
              EXCEPT !.constraintPredicate = RdfType],
          [RawNode("MissingProperty", PropName, Undef, Undef, <<>>)
              EXCEPT !.tripleSubject = ReportSubject],
          [RawNode("BooleanSemActFailure", PropName, Undef, Undef, <<>>)
              EXCEPT !.ctxPredicate = PropName, !.code = "return false"],
          RawNode("BooleanSemActFailure", PropName, Undef, Undef, <<>>),
          [RawNode("ClosedShapeViolation", Undef, Undef, Undef, <<>>)
              EXCEPT !.unexpectedTriples = <<PropText, PropName>>],
          RawNode("ShapeTest", Undef, ReportNode, ReportShape, <<>>)}

\* the generated ReportItems whose errors are the array errs
NestingReports(errs) ==
    {RawNode("Failure", Undef, Undef, Undef, errs),
     RawNode("Failure", Undef, ReportNode, ReportShape, errs),
     RawNode("ShapeAndFailure", Undef, ReportSubject, ReportShapeNested, errs),
     RawNode("ShapeAndResults", Undef, ReportNode, ReportShape, errs),
     RawNode(Undef, Undef, ReportNode, ReportShape, errs),
     RawNode("TypeMismatch", PropName, Undef, Undef, errs),
     RawNode("TypeMismatch", PropText, Undef, Undef, errs)}

RECURSIVE ReportItemsOf(_)
RECURSIVE ReportArraysOf(_)
\* the generated ReportItems of exactly n nodes
ReportItemsOf(n) ==
    IF n = 1 THEN LeafReports \cup NestingReports(<<>>)
    ELSE UNION {NestingReports(errs) : errs \in ReportArraysOf(n - 1)}

\* the sequences of generated ReportItems of exactly n nodes together
ReportArraysOf(n) ==
    IF n = 0 THEN {<<>>}
    ELSE UNION {{<<r>> \o rest : r \in ReportItemsOf(k), rest \in ReportArraysOf(n - k)} :
                    k \in 1..n}

\* the generated reports: an array of ReportItems
RawReports == UNION {{Arr(a) : a \in ReportArraysOf(n)} : n \in 0..MaxReportNodes}

InitReport ==
    /\ pc = "start"
    /\ rawReport \in RawReports
    /\ validation = [error |-> NoError, simplified |-> <<>>, removed |-> <<>>,
                     failures |-> <<>>]
    /\ store = <<>>
    /\ components = <<>>
    /\ shapes = <<>>
    /\ recursion = [maxDepth |-> 0, overflow |-> FALSE, calls |-> <<>>]
    /\ IdleValidate

\* shexValidator.validate(data, shape) once shex.Validator has reported rawReport
Validate ==
    /\ pc = "start"
    /\ validation' = ShexValidate(ValidatorConfig, rawReport)
    /\ pc' = "done"
    /\ UNCHANGED <<store, components, shapes, recursion, rawReport, validateVars>>

NextReport == Validate

SpecReport == InitReport /\ [][NextReport]_vars

-----------------------------------------------------------------------------
(* parser.js: stringToQuads; helpers/errors.js; utils.js: removeUrls,       *)
(* uniqueBy                                                                 *)

\* errors.InvalidDataError
InvalidDataError == "InvalidDataError"
\* e instanceof errors.InvalidDataError (helpers/errors.js): the classes
\* InvalidDataError and ShexValidationError are distinct
InstanceOfInvalidDataError(e) == e = InvalidDataError

\* Mutant of parseStream: an empty store is resolved, not undefined
parseStreamToStore(outcome) ==
    IF outcome.rejects THEN [thrown |-> TRUE, defined |-> FALSE, store |-> <<>>]
    ELSE [thrown |-> FALSE, defined |-> TRUE, store |-> AddQuads(<<>>, outcome.quads, 1)]

\* parseJsonLd / parseMicrodata / parseRdfa on a text whose stream parser
\* rejects or emits outcome.quads: [thrown, defined, store]
parseStream(outcome) ==
    IF outcome.rejects THEN [thrown |-> TRUE, defined |-> FALSE, store |-> <<>>]
    ELSE LET st == AddQuads(<<>>, outcome.quads, 1)
         IN  [thrown |-> FALSE, defined |-> Len(st) # 0, store |-> st]

\* tryParse(parser): what the parser resolved to, undefined if it threw
tryParse(result) ==
    IF result.thrown THEN [defined |-> FALSE, store |-> <<>>]
    ELSE [defined |-> result.defined, store |-> result.store]

\* stringToQuads(text, url): [error, store]
stringToQuads(item) ==
    LET j == tryParse(parseStream(item.jsonLd))
        m == tryParse(parseStream(item.microdata))
        r == tryParse(parseStream(item.rdfa))
        res == IF j.defined THEN j ELSE IF m.defined THEN m ELSE r
    IN  IF ~res.defined \/ Len(res.store) = 0
        THEN [error |-> InvalidDataError, store |-> <<>>]
        ELSE [error |-> NoError, store |-> res.store]

\* the parsers in the order stringToQuads tries them
Parsers == <<"jsonLd", "microdata", "rdfa">>

RECURSIVE TryFrom(_, _, _)
\* await tryParse(...) || await tryParse(...) || ... from the parser at
\* index k on, st = [attempts, res]: a parser is invoked only if no earlier
\* one resolved to a store
TryFrom(item, k, st) ==
    IF k > Len(Parsers) \/ st.res.defined THEN st
    ELSE TryFrom(item, k + 1,
                 [attempts |-> Append(st.attempts, Parsers[k]),
                  res |-> tryParse(parseStream(item[Parsers[k]]))])

\* the parsers stringToQuads invokes for the item, in order
InvokedParsers(item) ==
    TryFrom(item, 1, [attempts |-> <<>>, res |-> [defined |-> FALSE, store |-> <<>>]]).attempts
\* res of stringToQuads for the item
LastResult(item) ==
    TryFrom(item, 1, [attempts |-> <<>>, res |-> [defined |-> FALSE, store |-> <<>>]]).res

\* the types the entities of the generated items have
TypeNames == <<"Thing", "Event">>
\* the id of the NamedNode of the type TypeNames[k]: no entity has it
TypeId(k) == MaxNodes + k
\* term.value of the NamedNode with id n
TermValue(n) == IF n > MaxNodes THEN SchemaNs \o TypeNames[n - MaxNodes] ELSE Undef

\* removeUrls(text): text without its url-like substrings; of the strings of
\* the model the IRIs of the types have one, which ends at the last '/'
removeUrls(text) ==
    IF \E k \in 1..Len(TypeNames) : text = SchemaNs \o TypeNames[k]
    THEN TypeNames[CHOOSE k \in 1..Len(TypeNames) : text = SchemaNs \o TypeNames[k]]
    ELSE text

RECURSIVE UniqueKey(_, _, _, _)
\* let val = ''; keys.forEach(key => val += item[key]), from the key at
\* index i on
UniqueKey(item, keys, i, val) ==
    IF i > Len(keys) THEN val
    ELSE UniqueKey(item, keys, i + 1, val \o item[keys[i]])

RECURSIVE uniqueByLoop(_, _, _, _, _)
\* items.filter(...) of uniqueBy from index i on; seen: the properties of
\* the object seen, kept: the items kept so far
uniqueByLoop(items, keys, i, seen, kept) ==
    IF i > Len(items) THEN kept
    ELSE LET val == UniqueKey(items[i], keys, 1, "")
         IN  IF val \in seen THEN uniqueByLoop(items, keys, i + 1, seen, kept)
             ELSE uniqueByLoop(items, keys, i + 1, seen \cup {val},
                               Append(kept, items[i]))

\* Mutant of uniqueBy: nothing is removed
uniqueByNothing(items, keys) == items

\* uniqueBy(items, keys)
uniqueBy(items, keys) == uniqueByLoop(items, keys, 1, {}, <<>>)

-----------------------------------------------------------------------------
(* schema-validator.js: validateSchemaOrg and recursiveValidate, one step   *)
(* per suspension point: Spec                                               *)

\* items of a generated document
MaxItems == 2
\* quads of a generated item
MaxItemTriples == 2
\* validator calls of one run that report a failure
MaxFailing == 2

\* the quads a generated item may hold: entity 1 is a Thing, entity 2 an
\* Event or untyped
ItemQuads ==
    {Quad(1, RdfType, NamedNode(TypeId(1))),
     Quad(2, RdfType, NamedNode(TypeId(2))),
     Quad(2, "p", Literal)}

\* what a stream parser can make of an item
Rejects == [rejects |-> TRUE, quads |-> <<>>]
Emits(quads) == [rejects |-> FALSE, quads |-> quads]

\* the generated items: what each of the three parsers makes of the text
Items ==
    {[jsonLd |-> Emits(q), microdata |-> Rejects, rdfa |-> Rejects] :
        q \in StoresUpTo(ItemQuads, MaxItemTriples)}
    \cup {[jsonLd |-> Rejects, microdata |-> Rejects, rdfa |-> Rejects],
          [jsonLd |-> Rejects, microdata |-> Emits(<<>>), rdfa |-> Emits(<<>>)]}

\* the IRI of the entity with id n
NodeIri(n) == IF n = 1 THEN "http://example.org/1" ELSE "http://example.org/2"

\* the errors of the reports shex.Validator can give for a failing node
FailingErrors ==
    {<<RawNode("MissingProperty", PropName, Undef, Undef, <<>>)>>,
     <<RawNode("MissingProperty", PropName, Undef, Undef, <<>>),
       RawNode("MissingProperty", PropText, Undef, Undef, <<>>)>>,
     <<RawNode("MissingProperty", PropName, Undef, Undef, <<>>),
       RawNode("MissingProperty", PropName, Undef, Undef, <<>>)>>,
     <<RawNode("TypeMismatch", PropText, Undef, Undef,
               <<RawNode(UnknownType, PropName, Undef, Undef, <<>>)>>)>>}

\* the reports shex.Validator can give for the node and the shape
ValidatorReports(node, shape) ==
    {RawNode("ShapeTest", Undef, node, shape, <<>>)}
    \cup {RawNode("Failure", Undef, node, shape, errs) : errs \in FailingErrors}

\* the report reports a failure
IsFailing(raw) == raw.type # "ShapeTest"

\* a call of recursiveValidate(hierarchyNode, shapeStore, id) that has not
\* reached its first statement
Frame(hierarchyNode) ==
    [node |-> hierarchyNode, startShape |-> Undef, type |-> Undef,
     failures |-> <<>>, properties |-> {}, child |-> 1]

\* the entry of shapes.entries() the inner loop is at
Entity == shapes[entityIdx]
\* the innermost call of recursiveValidate
Top == stack[Len(stack)]

\* Mutant of Caught: the catch clause rethrows every error
CaughtNever(e) == FALSE

\* Mutant of Caught: the catch clause swallows every error
CaughtAlways(e) == TRUE

\* e instanceof errors.InvalidDataError in the catch clause of validateSchemaOrg
Caught(e) == InstanceOfInvalidDataError(e)

Init ==
    /\ pc = "item"
    /\ data \in UNION {[1..n -> Items] : n \in 0..MaxItems}
    /\ itemIdx = 1
    /\ entityIdx = 1
    /\ stack = <<>>
    /\ report = <<>>
    /\ error = NoError
    /\ calls = <<>>
    /\ returned = <<>>
    /\ attempts = <<>>
    /\ resolved = [defined |-> FALSE, store |-> <<>>]
    /\ uniqueItems = <<>>
    /\ uniqueKept = <<>>
    /\ store = <<>>
    /\ components = <<>>
    /\ shapes = <<>>
    /\ recursion = [maxDepth |-> 0, overflow |-> FALSE, calls |-> <<>>]
    /\ IdleReport

\* an error e is thrown inside the try block of validateSchemaOrg: the
\* catch clause ends the item or rethrows
ThrowInItem(e) ==
    /\ stack' = <<>>
    /\ IF Caught(e)
       THEN /\ pc' = "item"
            /\ itemIdx' = itemIdx + 1
            /\ error' = error
       ELSE /\ pc' = "thrown"
            /\ itemIdx' = itemIdx
            /\ error' = e

\* const shapes = utils.quadsToShapes(await parsers.stringToQuads(item, url))
ParseItem ==
    /\ pc = "item"
    /\ itemIdx <= Len(data)
    /\ LET q == stringToQuads(data[itemIdx]) IN
       IF q.error # NoError
       THEN /\ ThrowInItem(q.error)
            /\ UNCHANGED <<store, components, shapes, recursion, entityIdx>>
       ELSE LET r == quadsToShapesRun(q.store) IN
            /\ store' = q.store
            /\ components' = stronglyConnectedComponents(q.store)
            /\ shapes' = r.shapes
            /\ recursion' = [maxDepth |-> r.maxDepth, overflow |-> r.overflow,
                             calls |-> r.calls]
            /\ entityIdx' = 1
            /\ pc' = "entity"
            /\ UNCHANGED <<stack, itemIdx, error>>
    /\ attempts' = InvokedParsers(data[itemIdx])
    /\ resolved' = LastResult(data[itemIdx])
    /\ UNCHANGED <<uniqueItems, uniqueKept, data, report, calls, returned, rawReport,
                   validation>>

\* for (const [id, shape] of shapes.entries()): the next entry, or the end
\* of the try block
NextEntity ==
    /\ pc = "entity"
    /\ IF entityIdx <= Len(shapes)
       THEN /\ stack' = <<Frame(hierarchy)>>
            /\ pc' = "enter"
            /\ UNCHANGED itemIdx
       ELSE /\ itemIdx' = itemIdx + 1
            /\ pc' = "item"
            /\ UNCHANGED stack
    /\ UNCHANGED <<uniqueItems, uniqueKept, attempts, resolved, data, entityIdx, report, error, calls, returned, store,
                   components, shapes, recursion, rawReport, validation>>

\* Mutant of ShapeIdsIncludes: every start shape is taken to exist
ShapeIdsIncludesAlways(startShape) == TRUE

\* shapeIds.includes(startShape)
ShapeIdsIncludes(startShape) == startShape \in shapeIds

\* recursiveValidate from its first statement to the call of
\* shexValidator.validate, or to the loop over hierarchyNode.nested if the
\* start shape does not exist
EnterNode ==
    /\ pc = "enter"
    /\ LET typeQuads == GetQuadsOfSubjectPredicate(Entity.value, ToId(Entity.key), RdfType)
       IN  IF Len(typeQuads) = 0
           THEN /\ ThrowInItem(InvalidDataError)
           ELSE LET type == removeUrls(TermValue(typeQuads[1].object.id))
                    startShape == StartShape(Top.node.service, removeUrls(type))
                IN  /\ stack' = [stack EXCEPT ![Len(stack)] =
                                    [@ EXCEPT !.type = type, !.startShape = startShape]]
                    /\ pc' = IF ShapeIdsIncludes(startShape) THEN "validating" ELSE "nested"
                    /\ UNCHANGED <<itemIdx, error>>
    /\ UNCHANGED <<uniqueItems, uniqueKept, attempts, resolved, data, entityIdx, report, calls, returned, store, components,
                   shapes, recursion, rawReport, validation>>

\* failures.forEach(failure => { failure.service = ...; failure.node = ... })
TagFailures(failures, service, type) ==
    [k \in 1..Len(failures) |->
        [failures[k] EXCEPT !.service = service, !.node = removeUrls(type)]]

\* shexValidator.validate(shapeStore, startShape, {baseUrl: id}) resolves
\* or throws, up to const properties = new Set(...)
ValidatorReturns ==
    /\ pc = "validating"
    /\ \E raw \in ValidatorReports(NodeIri(ToId(Entity.key)), Top.startShape) :
        /\ IsFailing(raw) =>
              Cardinality({k \in 1..Len(calls) : IsFailing(calls[k].raw)}) < MaxFailing
        /\ LET v == ShexValidate(ValidatorConfig, raw)
               failures == TagFailures(v.failures, Top.node.service, Top.type)
           IN  /\ rawReport' = raw
               /\ validation' = v
               /\ calls' = Append(calls,
                      [item |-> itemIdx, entity |-> Entity.key,
                       service |-> Top.node.service, shape |-> Top.startShape,
                       raw |-> raw, error |-> v.error, failures |-> failures])
               /\ IF v.error # NoError
                  THEN ThrowInItem(v.error)
                  ELSE /\ stack' = [stack EXCEPT ![Len(stack)] =
                              [@ EXCEPT !.failures = failures,
                                        !.properties =
                                            {failures[k].property : k \in 1..Len(failures)}]]
                       /\ pc' = "nested"
                       /\ UNCHANGED <<itemIdx, error>>
    /\ UNCHANGED <<uniqueItems, uniqueKept, attempts, resolved, data, entityIdx, report, returned, store, components, shapes,
                   recursion>>

\* Mutant of NestedService: the nested list is walked from its end
NestedServiceFromEnd(frame) ==
    frame.node.nested[Len(frame.node.nested) + 1 - frame.child]

\* const nestedService of hierarchyNode.nested: the one the loop is at
NestedService(frame) == frame.node.nested[frame.child]

\* for (const nestedService of hierarchyNode.nested): the call of
\* recursiveValidate(nestedService, shapeStore, id)
CallNested ==
    /\ pc = "nested"
    /\ Top.child <= Len(Top.node.nested)
    /\ stack' = Append(stack, Frame(NestedService(Top)))
    /\ pc' = "enter"
    /\ UNCHANGED <<uniqueItems, uniqueKept, attempts, resolved, data, itemIdx, entityIdx, report, error, calls, returned, store,
                   components, shapes, recursion, rawReport, validation>>

\* Mutant of NotShadowed: nothing is filtered
NotShadowedNever(x, properties) == TRUE

\* the filter of the nested failures: x => !properties.has(x.property)
NotShadowed(x, properties) == x.property \notin properties

\* Mutant of PushNestedFailures: the nested failures are put first
UnshiftNestedFailures(failures, nestedFailures) == nestedFailures \o failures

\* if (nestedFailures.length > 0) failures.push(...nestedFailures)
PushNestedFailures(failures, nestedFailures) ==
    IF Len(nestedFailures) > 0 THEN failures \o nestedFailures ELSE failures

\* return failures, into the loop over hierarchyNode.nested of the calling
\* recursiveValidate: the filter and the push, or into validateSchemaOrg:
\* uniqueBy and report.push
ReturnNode ==
    /\ pc = "nested"
    /\ Top.child > Len(Top.node.nested)
    /\ IF Len(stack) > 1
       THEN LET caller == stack[Len(stack) - 1]
                nestedFailures ==
                    SelectSeq(Top.failures, LAMBDA x : NotShadowed(x, caller.properties))
            IN  /\ stack' = [SubSeq(stack, 1, Len(stack) - 1) EXCEPT ![Len(stack) - 1] =
                                [@ EXCEPT !.failures = PushNestedFailures(@, nestedFailures),
                                          !.child = @ + 1]]
                /\ pc' = "nested"
                /\ returned' = Append(returned,
                       [item |-> itemIdx, entity |-> Entity.key,
                        service |-> Top.node.service, root |-> FALSE,
                        failures |-> Top.failures, unique |-> <<>>])
                /\ UNCHANGED <<report, entityIdx>>
       ELSE LET failures == uniqueBy(Top.failures, <<"property", "shape", "severity">>)
            IN  /\ stack' = <<>>
                /\ report' = report \o failures
                /\ entityIdx' = entityIdx + 1
                /\ pc' = "entity"
                /\ returned' = Append(returned,
                       [item |-> itemIdx, entity |-> Entity.key,
                        service |-> Top.node.service, root |-> TRUE,
                        failures |-> Top.failures, unique |-> failures])
    /\ UNCHANGED <<uniqueItems, uniqueKept, attempts, resolved, data, itemIdx, error, calls, store, components, shapes,
                   recursion, rawReport, validation>>

\* return report
ReturnReport ==
    /\ pc = "item"
    /\ itemIdx > Len(data)
    /\ pc' = "returned"
    /\ UNCHANGED <<uniqueItems, uniqueKept, attempts, resolved, data, itemIdx, entityIdx, stack, report, error, calls, returned,
                   store, components, shapes, recursion, rawReport, validation>>

Next ==
    \/ ParseItem
    \/ NextEntity
    \/ EnterNode
    \/ ValidatorReturns
    \/ CallNested
    \/ ReturnNode
    \/ ReturnReport

Spec == Init /\ [][Next]_vars

-----------------------------------------------------------------------------
(* parser.js: stringToQuads, one step per awaited parser: SpecParse *)

\* what a stream parser can make of a text: it rejects, before or after a
\* quad, or ends with no quad, one quad, two quads or one quad twice
ParserOutcomes ==
    LET q1 == Quad(1, RdfType, NamedNode(TypeId(1)))
        q2 == Quad(2, "p", Literal)
    IN  {Rejects, [rejects |-> TRUE, quads |-> <<q1>>],
         Emits(<<>>), Emits(<<q1>>), Emits(<<q2, q1>>), Emits(<<q2, q2>>)}

\* the texts handed to stringToQuads
ParseItems == [jsonLd : ParserOutcomes, microdata : ParserOutcomes, rdfa : ParserOutcomes]

InitParse ==
    /\ pc = "tryParse"
    /\ data \in {<<item>> : item \in ParseItems}
    /\ itemIdx = 1
    /\ entityIdx = 1
    /\ stack = <<>>
    /\ report = <<>>
    /\ error = NoError
    /\ calls = <<>>
    /\ returned = <<>>
    /\ attempts = <<>>
    /\ resolved = [defined |-> FALSE, store |-> <<>>]
    /\ uniqueItems = <<>>
    /\ uniqueKept = <<>>
    /\ store = <<>>
    /\ components = <<>>
    /\ shapes = <<>>
    /\ recursion = [maxDepth |-> 0, overflow |-> FALSE, calls |-> <<>>]
    /\ IdleReport

\* await tryParse(parser) for the next parser of the || chain
TryParser ==
    /\ pc = "tryParse"
    /\ Len(attempts) < Len(Parsers)
    /\ ~resolved.defined
    /\ attempts' = Append(attempts, Parsers[Len(attempts) + 1])
    /\ resolved' = tryParse(parseStream(data[itemIdx][Parsers[Len(attempts) + 1]]))
    /\ UNCHANGED <<uniqueItems, uniqueKept, pc, data, itemIdx, entityIdx, stack, report,
                   error, calls, returned, store, components, shapes, recursion,
                   rawReport, validation>>

\* if (res === undefined || res.getQuads().length === 0) throw ...; return res
ReturnQuads ==
    /\ pc = "tryParse"
    /\ resolved.defined \/ Len(attempts) = Len(Parsers)
    /\ IF ~resolved.defined \/ Len(resolved.store) = 0
       THEN /\ error' = InvalidDataError
            /\ pc' = "thrown"
            /\ UNCHANGED store
       ELSE /\ store' = resolved.store
            /\ pc' = "done"
            /\ UNCHANGED error
    /\ UNCHANGED <<uniqueItems, uniqueKept, attempts, resolved, data, itemIdx, entityIdx, stack, report, calls,
                   returned, components, shapes, recursion, rawReport, validation>>

NextParse == TryParser \/ ReturnQuads

SpecParse == InitParse /\ [][NextParse]_vars

-----------------------------------------------------------------------------
(* utils.js: uniqueBy on its own: SpecUnique *)

\* length of the longest generated list of items
MaxUniqueItems == 3

\* the generated items: objects of the keys property, shape and severity
UniqueItems ==
    [property : {"a", "ab"}, shape : {"", "b"}, severity : {"error", "warning"}]

InitUnique ==
    /\ pc = "start"
    /\ uniqueItems \in UNION {[1..n -> UniqueItems] : n \in 0..MaxUniqueItems}
    /\ uniqueKept = <<>>
    /\ data = <<>>
    /\ itemIdx = 1
    /\ entityIdx = 1
    /\ stack = <<>>
    /\ report = <<>>
    /\ error = NoError
    /\ calls = <<>>
    /\ returned = <<>>
    /\ attempts = <<>>
    /\ resolved = [defined |-> FALSE, store |-> <<>>]
    /\ store = <<>>
    /\ components = <<>>
    /\ shapes = <<>>
    /\ recursion = [maxDepth |-> 0, overflow |-> FALSE, calls |-> <<>>]
    /\ IdleReport

\* uniqueBy(items, ['property', 'shape', 'severity'])
UniqueBy ==
    /\ pc = "start"
    /\ uniqueKept' = uniqueBy(uniqueItems, <<"property", "shape", "severity">>)
    /\ pc' = "done"
    /\ UNCHANGED <<uniqueItems, data, itemIdx, entityIdx, stack, report, error, calls,
                   returned, attempts, resolved, store, components, shapes, recursion,
                   rawReport, validation>>

NextUnique == UniqueBy

SpecUnique == InitUnique /\ [][NextUnique]_vars

-----------------------------------------------------------------------------
(* The triple graph, stated independently of the code's traversals *)

\* ids that are the subject of some quad of st
Subjects(st) == {st[i].subject.id : i \in 1..Len(st)}
\* ids that are the non-literal object of some quad of st
NonLiteralObjects(st) ==
    {st[i].object.id : i \in {k \in 1..Len(st) : st[k].object.termType # "Literal"}}
\* the nodes of the directed triple graph
GraphNodes(st) == Subjects(st) \cup NonLiteralObjects(st)
\* the nodes one subject->object edge (non-literal object) away from S
Successors(st, S) ==
    {st[i].object.id : i \in {k \in 1..Len(st) :
        st[k].subject.id \in S /\ st[k].object.termType # "Literal"}}

RECURSIVE ReachableFrom(_, _)
\* the nodes reachable from S along edges (S included)
ReachableFrom(st, S) ==
    LET T == S \cup Successors(st, S)
    IN  IF T = S THEN S ELSE ReachableFrom(st, T)

MutuallyReachable(st, a, b) ==
    b \in ReachableFrom(st, {a}) /\ a \in ReachableFrom(st, {b})

\* both ids are assigned a component id, and the same one
SameComponentId(a, b) ==
    /\ MapHas(components, a)
    /\ MapHas(components, b)
    /\ ComponentOf(components, a) = ComponentOf(components, b)

\* the strongly connected components of the triple graph
TrueComponents(st) ==
    {{b \in GraphNodes(st) : MutuallyReachable(st, a, b)} : a \in GraphNodes(st)}
\* a quad leads into C from a node outside C
HasIncomingFromOutside(st, C) ==
    \E i \in 1..Len(st) :
        /\ st[i].object.termType # "Literal"
        /\ st[i].object.id \in C
        /\ st[i].subject.id \notin C
\* the keys of the shapes map
ShapeKeys == {shapes[k].key.str : k \in 1..Len(shapes)}
\* how often quad q occurs in sequence seq
Occurrences(seq, q) == Cardinality({k \in 1..Len(seq) : seq[k] = q})

-----------------------------------------------------------------------------
(* Claims about stronglyConnectedComponents and quadsToShapes (SpecShapes) *)

\* C1 as stated: any two nodes of the triple graph (subjects and non-literal
\* objects) are assigned the same component id iff each is reachable from the
\* other; in particular every node has a component id (a = b).
C1_AllNodesPartition ==
    pc = "done" =>
        \A a, b \in GraphNodes(store) :
            SameComponentId(a, b) <=> MutuallyReachable(store, a, b)

\* C1 amended: two ids that each appear as the subject of a quad are assigned
\* the same component id iff each is reachable from the other along
\* subject->object edges with a non-literal object.
C1_SubjectsPartition ==
    pc = "done" =>
        \A a, b \in Subjects(store) :
            SameComponentId(a, b) <=> MutuallyReachable(store, a, b)

\* C1 witness: a store with two distinct subjects on a common cycle and a
\* third subject outside their component has been decomposed.
C1_Witness ==
    /\ pc = "done"
    /\ \E a, b, c \in Subjects(store) :
        /\ a # b
        /\ MutuallyReachable(store, a, b)
        /\ ~MutuallyReachable(store, a, c)
        /\ SameComponentId(a, b)
        /\ ~SameComponentId(a, c)

\* C9 as stated: every subject and every non-literal object id, also one that
\* is only an object, has exactly one component id, and no literal has one.
C9_AllNodesAssigned ==
    pc = "done" =>
        /\ \A n \in GraphNodes(store) :
            Cardinality({k \in 1..Len(components) : components[k].node = n}) = 1
        /\ ~MapHas(components, LiteralId)

\* C9 amended: every id that appears as a subject has exactly one component
\* id; an id that appears only as an object, and a literal, has none.
C9_SubjectsAssigned ==
    pc = "done" =>
        /\ \A n \in Subjects(store) :
            Cardinality({k \in 1..Len(components) : components[k].node = n}) = 1
        /\ \A k \in 1..Len(components) : components[k].node \in Subjects(store)
        /\ ~MapHas(components, LiteralId)

\* C9 witness: a decomposed store with a non-literal id that is only an
\* object, a literal object, and at least one assigned subject.
C9_Witness ==
    /\ pc = "done"
    /\ NonLiteralObjects(store) \ Subjects(store) # {}
    /\ \E i \in 1..Len(store) : store[i].object.termType = "Literal"
    /\ Len(components) > 0

\* C6: the shape store of every root key holds exactly the quads of the input
\* store whose subject is the root or is reachable from it.
C6_ShapeIsReachableClosure ==
    pc = "done" =>
        \A k \in 1..Len(shapes) :
            /\ shapes[k].defined
            /\ Range(shapes[k].value) =
                {q \in Range(store) :
                    q.subject.id \in ReachableFrom(store, {shapes[k].key.str})}

\* C6 witness: a shape was built for a root that reaches a subject other than
\* itself along two different edges into it (several paths), and for a root
\* that lies on a cycle.
C6_Witness ==
    /\ pc = "done"
    /\ \E k \in 1..Len(shapes) :
        LET r == shapes[k].key.str
            reach == ReachableFrom(store, {r})
        IN  \/ \E n \in (reach \cap Subjects(store)) \ {r} :
                \E i, j \in 1..Len(store) :
                    /\ store[i].subject.id # store[j].subject.id
                    /\ store[i].subject.id \in reach
                    /\ store[j].subject.id \in reach
                    /\ store[i].object = NamedNode(n)
                    /\ store[j].object = NamedNode(n)
            \/ \E n \in reach \ {r} : MutuallyReachable(store, r, n)

\* C7: the keys of the shapes map hold exactly one node of every component
\* that no quad enters from another component, and no node of a component
\* that some quad enters from another component.
C7_OneRootPerUndemotedComponent ==
    pc = "done" =>
        /\ \A C \in TrueComponents(store) :
            IF HasIncomingFromOutside(store, C)
            THEN ShapeKeys \cap C = {}
            ELSE Cardinality(ShapeKeys \cap C) = 1
        /\ Cardinality(ShapeKeys) = Len(shapes)

\* C7 witness: the store has a component entered from outside and a
\* component of two nodes that is not.
C7_Witness ==
    /\ pc = "done"
    /\ \E C, D \in TrueComponents(store) :
        /\ HasIncomingFromOutside(store, C)
        /\ ~HasIncomingFromOutside(store, D)
        /\ Cardinality(D) >= 2
        /\ Cardinality(ShapeKeys \cap D) = 1

\* C8: quadsToShapes returns for every store: getShape's recursion never
\* passes the number of subjects plus two, and a shape holds every quad of
\* each node on a cycle through its root exactly once.
C8_GetShapeTerminates ==
    pc = "done" =>
        /\ ~recursion.overflow
        /\ recursion.maxDepth <= Cardinality(Subjects(store)) + 2
        /\ \A k \in 1..Len(shapes) :
            \A q \in Range(store) :
                MutuallyReachable(store, shapes[k].key.str, q.subject.id)
                    => Occurrences(shapes[k].value, q) = 1

\* C8 witness: shapes were extracted from a store holding a mutual reference
\* A -> B -> A, and the recursion went at least three calls deep.
C8_Witness ==
    /\ pc = "done"
    /\ \E a, b \in Subjects(store) :
        /\ a # b
        /\ b \in Successors(store, {a})
        /\ a \in Successors(store, {b})
        /\ a \in ShapeKeys
    /\ recursion.maxDepth >= 3

-----------------------------------------------------------------------------
(* Claims about ValidationReport.simplify, checked under SpecReport *)

\* the leaf types the simplifier is said to turn into one failure each
LeafFailureTypes ==
    {"TypeMismatch", "MissingProperty", "ExcessTripleViolation", "NegatedProperty"}

\* r is a leaf failure node: of a leaf type, without nested errors, on a
\* property that is not rdf:type
IsLeafFailure(r) ==
    /\ r.type \in LeafFailureTypes
    /\ r.errors = Arr(<<>>)
    /\ Truthy(r.property)
    /\ r.property # RdfType
    /\ r.constraintPredicate # RdfType

\* the report is a flat, non-empty array of leaf failure nodes
IsFlatLeafArray(r) ==
    /\ Len(r.items) > 0
    /\ \A k \in 1..Len(r.items) : IsLeafFailure(r.items[k])

\* C4: simplifying a flat array of n leaf nodes of the types TypeMismatch,
\* MissingProperty, ExcessTripleViolation and NegatedProperty (property not
\* rdf:type, no nested errors) raises no error and yields exactly n failures,
\* in input order, each with the type and property of its node.
C4_LeafNodesYieldOneFailureEach ==
    (pc = "done" /\ IsFlatLeafArray(rawReport)) =>
        /\ validation.error = NoError
        /\ Len(validation.simplified) = Len(rawReport.items)
        /\ \A k \in 1..Len(rawReport.items) :
              /\ validation.simplified[k].type = rawReport.items[k].type
              /\ validation.simplified[k].property = rawReport.items[k].property

-----------------------------------------------------------------------------
(* Claims about validateSchemaOrg and recursiveValidate, checked under Spec *)

RECURSIVE Subtrees(_)
\* the hierarchy nodes of the tree below and including node
Subtrees(node) ==
    {node} \cup UNION {Subtrees(node.nested[k]) : k \in 1..Len(node.nested)}
\* the services of the tree below and including the node of service
ServicesBelow(service) ==
    {n.service : n \in Subtrees(CHOOSE h \in Subtrees(hierarchy) : h.service = service)}
\* the services of the proper ancestors of the node of service x that lie in
\* the tree of the node of service top
AncestorsWithin(top, x) ==
    {y \in ServicesBelow(top) : y # x /\ x \in ServicesBelow(y)}

\* the failures the validator produced at the node of service x for the
\* entity of the item (none if the node made no call)
OwnFailures(item, entity, x) ==
    LET ks == {k \in 1..Len(calls) : /\ calls[k].item = item
                                     /\ calls[k].entity = entity
                                     /\ calls[k].service = x}
    IN  IF ks = {} THEN <<>> ELSE calls[CHOOSE k \in ks : TRUE].failures

\* the properties the validator failed at the proper ancestors of x within
\* the tree of the returned call e
AncestorProperties(e, x) ==
    {f.property : f \in UNION {Range(OwnFailures(e.item, e.entity, y)) :
                                  y \in AncestorsWithin(e.service, x)}}

\* C2: in the list a call of recursiveValidate returns for a hierarchy node,
\* the failures produced at each node x of its tree are exactly, and in
\* order, the failures the validator produced at x whose property no proper
\* ancestor of x in that tree failed itself: none with an ancestor's failed
\* property is left, every other one is retained.
C2_DescendantFailuresShadowed ==
    \A r \in 1..Len(returned) :
        LET e == returned[r] IN
        \A x \in ServicesBelow(e.service) :
            SelectSeq(e.failures, LAMBDA f : f.service = x)
              = SelectSeq(OwnFailures(e.item, e.entity, x),
                          LAMBDA f : f.property \notin AncestorProperties(e, x))

\* a root call has returned in which a descendant node produced one failure
\* on a property an ancestor failed and one on a property no ancestor failed
C2_Witness ==
    \E r \in 1..Len(returned) :
        LET e == returned[r] IN
        /\ e.root
        /\ \E x \in ServicesBelow(e.service) :
             LET own == OwnFailures(e.item, e.entity, x) IN
             /\ \E k \in 1..Len(own) : own[k].property \in AncestorProperties(e, x)
             /\ \E k \in 1..Len(own) :
                   /\ own[k].property \notin AncestorProperties(e, x)
                   /\ own[k] \in Range(e.failures)

\* the triple a failure is deduplicated by
Triple(f) == <<f.property, f.shape, f.severity>>
\* the string uniqueBy compares: the values of the three keys appended
TripleKey(f) == f.property \o f.shape \o f.severity

\* C3 (as stated): in the report validateSchemaOrg returns any two failures
\* differ in the triple (property, shape, severity), whichever entities and
\* items they come from.
C3_ReportUniqueAcrossDocument ==
    pc = "returned" =>
        \A i, j \in 1..Len(report) : i < j => Triple(report[i]) # Triple(report[j])

\* the calls of recursiveValidate on the root of the hierarchy that returned
RootReturns == SelectSeq(returned, LAMBDA e : e.root)

RECURSIVE ConcatUnique(_, _)
\* what the root calls from index i on added to the report
ConcatUnique(es, i) == IF i > Len(es) THEN <<>> ELSE es[i].unique \o ConcatUnique(es, i + 1)

RECURSIVE FirstOfKey(_, _)
\* the failures of fs at index i on that no earlier failure of fs shares the
\* key with
FirstOfKey(fs, i) ==
    IF i > Len(fs) THEN <<>>
    ELSE (IF \E h \in 1..(i - 1) : TripleKey(fs[h]) = TripleKey(fs[i])
          THEN <<>> ELSE <<fs[i]>>) \o FirstOfKey(fs, i + 1)

\* C3 (amended): the report is the concatenation, in order, of what each
\* entity contributed; within one entity's contribution any two failures
\* differ in the triple (property, shape, severity), and the contribution is
\* the entity's failures without those an earlier failure of the same entity
\* shares the appended key with, so the first one is the one kept.
C3_ReportUniquePerEntity ==
    /\ report = ConcatUnique(RootReturns, 1)
    /\ \A r \in 1..Len(RootReturns) :
          LET e == RootReturns[r] IN
          /\ e.unique = FirstOfKey(e.failures, 1)
          /\ \A i, j \in 1..Len(e.unique) :
                i < j => Triple(e.unique[i]) # Triple(e.unique[j])

\* the report is returned, one entity lost a duplicate to uniqueBy, and two
\* failures of different entities with an equal triple are both in the report
C3_Witness ==
    /\ pc = "returned"
    /\ \E r \in 1..Len(RootReturns) :
          Len(RootReturns[r].unique) < Len(RootReturns[r].failures)
    /\ \E i, j \in 1..Len(report) : i < j /\ Triple(report[i]) = Triple(report[j])

\* the types the code of simplify names
RecognizedTypes ==
    {"ShapeAndResults", "ShapeOrResults", "NodeConstraintViolation", "ShapeOrFailure",
     "ShapeTest", "ShapeAndFailure", "Failure", "SemActFailure", "FailureList",
     "ExtendedResults", "ExtensionFailure", "ClosedShapeViolation", "TypeMismatch",
     "MissingProperty", "ExcessTripleViolation", "NegatedProperty",
     "BooleanSemActFailure"}

RECURSIVE HasReachableUnknown(_)
\* the raw failure tree r has a node of a type outside RecognizedTypes that
\* no dropped node hides
HasReachableUnknown(r) ==
    IF IsArray(r) THEN \E k \in 1..Len(r.items) : HasReachableUnknown(r.items[k])
    ELSE IF Dropped(r) THEN FALSE
    ELSE IF r.type \notin RecognizedTypes THEN TRUE
    ELSE IF Nested(r) \/ r.type = "TypeMismatch" THEN HasReachableUnknown(r.errors)
    ELSE FALSE

\* C5: once shex.Validator has reported a tree with a reachable node of an
\* unrecognized type, validateSchemaOrg has thrown the ShexValidationError of
\* simplify: that call of the validator is the last one, the per-item
\* recovery did not swallow the error and no report is returned.
C5_UnknownTypeIsFatal ==
    \A k \in 1..Len(calls) :
        HasReachableUnknown(calls[k].raw) =>
            /\ k = Len(calls)
            /\ calls[k].error = ShexValidationError
            /\ pc = "thrown"
            /\ error = ShexValidationError

\* validateSchemaOrg threw on a tree with an unrecognized type after an
\* earlier entity had put failures into the report
C5_Witness ==
    /\ pc = "thrown"
    /\ Len(report) > 0
    /\ Len(calls) > 1
    /\ HasReachableUnknown(calls[Len(calls)].raw)

\* the entity (an entry of shapes) has an rdf:type triple
IsTyped(e) == Len(GetQuadsOfSubjectPredicate(e.value, ToId(e.key), RdfType)) > 0

\* C10 (as stated): when validateSchemaOrg returns, every typed entity of an
\* item that also has an untyped entity was validated, whether it is
\* iterated before or after the untyped one, and what it contributed is in
\* the report.
C10_OnlyUntypedEntitySkipped ==
    pc = "returned" =>
        \A i \in 1..Len(data) :
            LET q == stringToQuads(data[i])
                es == quadsToShapes(q.store)
            IN  (q.error = NoError /\ \E u \in 1..Len(es) : ~IsTyped(es[u])) =>
                    \A t \in 1..Len(es) :
                        IsTyped(es[t]) =>
                            \E r \in 1..Len(RootReturns) :
                                /\ RootReturns[r].item = i
                                /\ RootReturns[r].entity = es[t].key
                                /\ Range(RootReturns[r].unique) \subseteq Range(report)

\* no serialization of the item at index i of data yields a triple
IsUnparseable(i) == stringToQuads(data[i]).error # NoError

\* C11: an item none of whose serializations yields a triple causes no call
\* of the validator and no return of recursiveValidate, so it contributes
\* nothing to the report (which is what the returned root calls contributed);
\* validateSchemaOrg does not throw InvalidDataError; and when it returns,
\* every later item that parses has had its first entity, if typed,
\* validated.
C11_UnparseableItemContributesNothing ==
    \A i \in 1..Len(data) :
        IsUnparseable(i) =>
            /\ \A k \in 1..Len(calls) : calls[k].item # i
            /\ \A k \in 1..Len(returned) : returned[k].item # i
            /\ report = ConcatUnique(RootReturns, 1)
            /\ error # InvalidDataError
            /\ (pc = "thrown" => error = ShexValidationError)
            /\ pc = "returned" =>
                  \A j \in (i + 1)..Len(data) :
                      LET es == quadsToShapes(stringToQuads(data[j]).store) IN
                      (~IsUnparseable(j) /\ IsTyped(es[1])) =>
                          \E r \in 1..Len(RootReturns) :
                              /\ RootReturns[r].item = j
                              /\ RootReturns[r].entity = es[1].key

\* validateSchemaOrg returned a report with failures of the second item
\* after a first item that no parser could read
C11_Witness ==
    /\ pc = "returned"
    /\ Len(data) = 2
    /\ IsUnparseable(1)
    /\ \E r \in 1..Len(RootReturns) :
          RootReturns[r].item = 2 /\ Len(RootReturns[r].unique) > 0
    /\ Len(report) > 0

RECURSIVE PreorderFailures(_, _)
RECURSIVE PreorderOfNested(_, _, _)
\* what the returned call e is to hold for the tree of the hierarchy node
\* n: the failures the validator produced at n that no ancestor shadows, in
\* the validator's order, then the same for each nested node, in the order
\* of n.nested
PreorderFailures(e, n) ==
    SelectSeq(OwnFailures(e.item, e.entity, n.service),
              LAMBDA f : f.property \notin AncestorProperties(e, n.service))
    \o PreorderOfNested(e, n, 1)

\* the same for the nested nodes of n from index i on
PreorderOfNested(e, n, i) ==
    IF i > Len(n.nested) THEN <<>>
    ELSE PreorderFailures(e, n.nested[i]) \o PreorderOfNested(e, n, i + 1)

\* the hierarchy node of the service
NodeOfService(service) == CHOOSE h \in Subtrees(hierarchy) : h.service = service

\* C12: the list a call of recursiveValidate returns is ordered
\* parent-before-children: the failures produced at the node come first, in
\* the order the validator gave them, then those of the subtree of each
\* nested node, in the order of the nested list.
C12_ParentBeforeChildren ==
    \A r \in 1..Len(returned) :
        returned[r].failures = PreorderFailures(returned[r], NodeOfService(returned[r].service))

\* a root call returned failures of two different nodes, one of them with
\* two failures of one validator call
C12_Witness ==
    \E r \in 1..Len(returned) :
        LET fs == returned[r].failures IN
        /\ returned[r].root
        /\ Len(fs) = 3
        /\ fs[1].service = fs[2].service
        /\ fs[1].property # fs[2].property
        /\ fs[3].service # fs[1].service

-----------------------------------------------------------------------------
(* Claims about removeMissingIfTypeMismatch and toStructuredDataReport,    *)
(* checked under SpecReport                                                *)

\* the number of failures of fs of the type on the property
CountOf(fs, type, property) ==
    Cardinality({k \in 1..Len(fs) : fs[k].type = type /\ fs[k].property = property})

\* the properties of the failures fs
PropertiesOf(fs) == {fs[k].property : k \in 1..Len(fs)}

\* the failure at index k of fs is one of the first t MissingProperty
\* failures on its property, t the number of TypeMismatch failures on it
IsAmongFirstMissing(fs, k) ==
    /\ fs[k].type = "MissingProperty"
    /\ Cardinality({h \in 1..k : /\ fs[h].type = "MissingProperty"
                                 /\ fs[h].property = fs[k].property})
         <= CountOf(fs, "TypeMismatch", fs[k].property)

RECURSIVE WithoutFirstMissing(_, _)
\* fs from index k on without the failures that are among the first missing
WithoutFirstMissing(fs, k) ==
    IF k > Len(fs) THEN <<>>
    ELSE (IF IsAmongFirstMissing(fs, k) THEN <<>> ELSE <<fs[k]>>)
         \o WithoutFirstMissing(fs, k + 1)

\* C13: after removeMissingIfTypeMismatch the number of MissingProperty
\* failures on a property P is max(0, m - t), m and t the numbers of
\* MissingProperty and TypeMismatch failures on P before; the failures of
\* another type and the MissingProperty failures on a property without a
\* TypeMismatch are kept in their order; what goes is the first t
\* MissingProperty failures on P.
C13_OneMissingPerTypeMismatch ==
    (pc = "done" /\ validation.error = NoError) =>
        LET before == validation.simplified
            after == validation.removed
            Untouched(f) == \/ f.type # "MissingProperty"
                            \/ CountOf(before, "TypeMismatch", f.property) = 0
        IN  /\ \A P \in PropertiesOf(before) :
                  LET m == CountOf(before, "MissingProperty", P)
                      t == CountOf(before, "TypeMismatch", P)
                  IN  CountOf(after, "MissingProperty", P) = IF m > t THEN m - t ELSE 0
            /\ SelectSeq(after, Untouched) = SelectSeq(before, Untouched)
            /\ after = WithoutFirstMissing(before, 1)

\* a report simplified to two MissingProperty failures and one TypeMismatch
\* on one property: one MissingProperty is left
C13_Witness ==
    /\ pc = "done"
    /\ validation.error = NoError
    /\ \E P \in PropertiesOf(validation.simplified) :
          /\ CountOf(validation.simplified, "MissingProperty", P) = 2
          /\ CountOf(validation.simplified, "TypeMismatch", P) = 1
          /\ CountOf(validation.removed, "MissingProperty", P) = 1

\* the literal the shape declares for the annotation predicate on the
\* property, Undef if it declares none: the shapes of the schema annotate
\* the property text only
DeclaredAnnotation(shape, property, predicate) ==
    LET ks == {k \in 1..Len(TextAnnotations) : TextAnnotations[k].predicate = predicate}
    IN  IF shape \in shapeIds /\ property = PropText /\ ks # {}
        THEN TextAnnotations[CHOOSE k \in ks : TRUE].object
        ELSE Undef

\* the value the locale annotation table gives the key for the label the
\* shape declares on the property, Undef if it gives none
LocalizedValue(shape, property, key) ==
    LET label == DeclaredAnnotation(shape, property, RdfsLabel)
        entries == IF label \in DOMAIN localeAnnotations THEN localeAnnotations[label]
                   ELSE <<>>
        ks == {k \in 1..Len(entries) : entries[k].key = key /\ ~entries[k].hasAt}
    IN  IF ks = {} THEN Undef ELSE entries[CHOOSE k \in ks : TRUE].val

\* the value of the key of a failure before any annotation is applied
DefaultValue(key) == IF key = "severity" THEN "error" ELSE Undef

\* C14 (as stated): for a failure with shape and property set, each
\* configured annotation key the shape declares on the property has the
\* declared literal as its value in the structured data report, a key it
\* does not declare keeps its previous value (unless the locale table
\* supplies it), and severityLabel is the severity table's entry for the
\* final severity.
C14_DeclaredAnnotationWins ==
    (pc = "done" /\ validation.error = NoError) =>
        \A k \in 1..Len(validation.failures) :
            LET err == validation.removed[k]
                f == validation.failures[k]
            IN  /\ (Truthy(err.shape) /\ Truthy(err.property)) =>
                      \A a \in 1..Len(annotations) :
                          LET declared == DeclaredAnnotation(err.shape, err.property,
                                                             annotations[a].value)
                              key == annotations[a].key
                          IN  IF Truthy(declared) THEN f[key] = declared
                              ELSE f[key] \in {DefaultValue(key),
                                               LocalizedValue(err.shape, err.property, key)}
                /\ f.severityLabel =
                      IF f.severity \in DOMAIN severityMessages
                      THEN severityMessages[f.severity] ELSE Undef

\* C15 (as stated): for a failure on a property whose label has an entry in
\* the locale annotation table, the fields the failure had before the
\* lookup are unchanged in the structured data report: property, message,
\* shape and node are those of the simplified failure, and severity, url and
\* description, where the shape declares them, are the declared literals.
C15_LocalizedLookupOnlyAdds ==
    (pc = "done" /\ validation.error = NoError) =>
        \A k \in 1..Len(validation.failures) :
            LET err == validation.removed[k]
                f == validation.failures[k]
                label == DeclaredAnnotation(err.shape, err.property, RdfsLabel)
            IN  (Truthy(err.shape) /\ Truthy(err.property)
                 /\ label \in DOMAIN localeAnnotations) =>
                    /\ f.property = err.property
                    /\ f.message = err.message
                    /\ f.shape = err.shape
                    /\ f.node = err.node
                    /\ \A key \in {"severity", "url", "description"} :
                          LET ks == {a \in 1..Len(annotations) : annotations[a].key = key}
                              declared == DeclaredAnnotation(err.shape, err.property,
                                  annotations[CHOOSE a \in ks : TRUE].value)
                          IN  Truthy(declared) => f[key] = declared

-----------------------------------------------------------------------------
(* Claims about stringToQuads, checked under SpecParse *)

\* the parser named name ends with at least one quad for the item
Yields(item, name) == ~item[name].rejects /\ Len(item[name].quads) > 0

\* C16: stringToQuads invokes the parsers in the order JSON-LD, Microdata,
\* RDFa, each only if every earlier one rejected or ended with no quad;
\* when it ends it has invoked the parsers up to the first one that yields a
\* quad and returns that parser's quads as a store, or it has invoked all
\* three, none yields a quad, and it throws InvalidDataError.
C16_FirstYieldingParserWins ==
    LET item == data[1]
        yielding == {k \in 1..Len(Parsers) : Yields(item, Parsers[k])}
        first == CHOOSE k \in yielding : \A h \in yielding : k <= h
    IN  /\ attempts = SubSeq(Parsers, 1, Len(attempts))
        /\ \A k \in 1..(Len(attempts) - 1) : ~Yields(item, attempts[k])
        /\ pc = "done" =>
              /\ yielding # {}
              /\ attempts = SubSeq(Parsers, 1, first)
              /\ Range(store) = Range(item[Parsers[first]].quads)
              /\ \A i, j \in 1..Len(store) : i < j => store[i] # store[j]
              /\ error = NoError
        /\ pc = "thrown" =>
              /\ yielding = {}
              /\ attempts = Parsers
              /\ error = InvalidDataError
        /\ pc \in {"tryParse", "done", "thrown"}

\* stringToQuads returned the quads of the Microdata parser after the
\* JSON-LD parser ended with no quad, without invoking the RDFa parser,
\* which would have yielded a quad
C16_Witness ==
    /\ pc = "done"
    /\ attempts = <<"jsonLd", "microdata">>
    /\ data[1].jsonLd = Emits(<<>>)
    /\ Yields(data[1], "rdfa")
    /\ Len(store) > 0

-----------------------------------------------------------------------------
(* Claims about the context of the failures of simplify, checked under     *)
(* SpecReport                                                              *)

\* the value of the field of the innermost of the enclosing containers
\* (outermost first) that declares it, Undef if none does
Nearest(enclosing, field) ==
    LET ks == {k \in 1..Len(enclosing) : Truthy(enclosing[k][field])}
    IN  IF ks = {} THEN Undef
        ELSE enclosing[CHOOSE k \in ks : \A h \in ks : h <= k][field]

RECURSIVE Emitted(_, _, _)
RECURSIVE EmittedOfArray(_, _, _, _)
\* The nodes of the raw report r that emit a failure, in the order of
\* emission, each with its enclosing containers (outermost first) and
\* whether it lies inside the nested errors of a TypeMismatch; a
\* ClosedShapeViolation stands once for each unexpected triple.
Emitted(r, enclosing, inside) ==
    IF IsArray(r) THEN EmittedOfArray(r.items, 1, enclosing, inside)
    ELSE IF Dropped(r) THEN <<>>
    ELSE IF Nested(r) THEN Emitted(r.errors, Append(enclosing, r), inside)
    ELSE IF r.type = "ClosedShapeViolation"
    THEN [k \in 1..Len(r.unexpectedTriples) |->
            [leaf |-> r, enclosing |-> enclosing, inside |-> inside]]
    ELSE IF r.type = "TypeMismatch"
    THEN Emitted(r.errors, <<>>, TRUE)
         \o <<[leaf |-> r, enclosing |-> enclosing, inside |-> inside]>>
    ELSE IF r.type = "BooleanSemActFailure" /\ ~Truthy(r.ctxPredicate) THEN <<>>
    ELSE <<[leaf |-> r, enclosing |-> enclosing, inside |-> inside]>>

\* the same for the items of an array from index i on
EmittedOfArray(items, i, enclosing, inside) ==
    IF i > Len(items) THEN <<>>
    ELSE Emitted(items[i], enclosing, inside)
         \o EmittedOfArray(items, i + 1, enclosing, inside)

\* C17: a failure simplify emits for a leaf or closed-shape node outside
\* the nested errors of every TypeMismatch has the type of its node, as
\* shape the shape of the nearest enclosing container that declares one,
\* and as node the triple subject of the leaf, else the node of the nearest
\* enclosing container that declares one.
C17_ShapeOfNearestContainer ==
    (pc = "done" /\ validation.error = NoError) =>
        LET emitted == Emitted(rawReport, <<>>, FALSE) IN
        /\ Len(validation.simplified) = Len(emitted)
        /\ \A k \in 1..Len(emitted) :
              LET f == validation.simplified[k]
                  e == emitted[k]
                  shape == Nearest(e.enclosing, "shape")
                  node == Nearest(e.enclosing, "node")
              IN  ~e.inside =>
                    /\ f.type = e.leaf.type
                    /\ Truthy(shape) => f.shape = shape
                    /\ Truthy(e.leaf.tripleSubject) => f.node = e.leaf.tripleSubject
                    /\ (~Truthy(e.leaf.tripleSubject) /\ Truthy(node)) => f.node = node

\* a MissingProperty under the container of a base shape that lies inside
\* the container of a derived shape is tagged with the base shape
C17_Witness ==
    /\ pc = "done"
    /\ validation.error = NoError
    /\ Len(rawReport.items) = 1
    /\ rawReport.items[1].shape = ReportShapeNested
    /\ Len(rawReport.items[1].errors.items) = 1
    /\ rawReport.items[1].errors.items[1].type = "Failure"
    /\ rawReport.items[1].errors.items[1].shape = ReportShape
    /\ Len(validation.simplified) = 1
    /\ validation.simplified[1].type = "MissingProperty"
    /\ validation.simplified[1].shape = ReportShape

-----------------------------------------------------------------------------
(* Claims about the overlap of the shapes of quadsToShapes, checked under  *)
(* SpecShapes                                                              *)

\* C18 (as stated): the shape stores of two different root keys have no
\* quad in common.
C18_ShapesDisjoint ==
    pc = "done" =>
        \A i, j \in 1..Len(shapes) :
            i # j => Range(shapes[i].value) \cap Range(shapes[j].value) = {}

\* C18 (amended): the quads the shape stores of two different root keys
\* have in common are exactly the quads whose subject is reachable from both
\* roots; the quads whose subject lies in the component of a root are in the
\* store of that root only.
C18_ShapesShareCommonDescendants ==
    pc = "done" =>
        \A i, j \in 1..Len(shapes) :
            i # j =>
                LET ri == shapes[i].key.str
                    rj == shapes[j].key.str
                IN  /\ Range(shapes[i].value) \cap Range(shapes[j].value) =
                         {q \in Range(store) :
                             q.subject.id \in ReachableFrom(store, {ri})
                                              \cap ReachableFrom(store, {rj})}
                    /\ \A q \in Range(shapes[j].value) :
                          ~MutuallyReachable(store, ri, q.subject.id)

\* two roots reference one subject: its quads are in both shape stores, the
\* quads of each root in one
C18_Witness ==
    /\ pc = "done"
    /\ \E i, j \in 1..Len(shapes) :
          /\ i # j
          /\ Range(shapes[i].value) \cap Range(shapes[j].value) # {}
          /\ Range(shapes[i].value) \ Range(shapes[j].value) # {}
          /\ Range(shapes[j].value) \ Range(shapes[i].value) # {}

-----------------------------------------------------------------------------
(* Claims about nodes without a type, checked under SpecReport *)

\* r has no type and carries nested errors: MissingProperty leaves only
IsTypelessContainer(r) ==
    /\ ~Truthy(r.type)
    /\ Len(r.errors.items) > 0
    /\ \A k \in 1..Len(r.errors.items) :
          /\ r.errors.items[k].type = "MissingProperty"
          /\ IsLeafFailure(r.errors.items[k])

\* C19: a report whose one node has no type and carries the nested errors
\* of n MissingProperty leaves is simplified to the n failures of the leaves,
\* in order, each with the shape of the node and, unless its triple names a
\* subject, the node of the node.
C19_TypelessContainerRecursed ==
    (pc = "done" /\ Len(rawReport.items) = 1
                 /\ IsTypelessContainer(rawReport.items[1])) =>
        LET container == rawReport.items[1] IN
        /\ validation.error = NoError
        /\ Len(validation.simplified) = Len(container.errors.items)
        /\ \A k \in 1..Len(container.errors.items) :
              LET leaf == container.errors.items[k] IN
              /\ validation.simplified[k].type = "MissingProperty"
              /\ validation.simplified[k].property = leaf.property
              /\ validation.simplified[k].shape = container.shape
              /\ validation.simplified[k].node = Or(leaf.tripleSubject, container.node)

-----------------------------------------------------------------------------
(* Claims about hierarchy nodes without a shape, checked under Spec *)

\* the list the call of recursiveValidate for the service returned for the
\* entity of the item
ReturnedOf(item, entity, service) ==
    LET r == CHOOSE r \in 1..Len(returned) :
                /\ returned[r].item = item
                /\ returned[r].entity = entity
                /\ returned[r].service = service
    IN  returned[r].failures

\* the call of recursiveValidate for the service has returned for the
\* entity of the item
HasReturned(item, entity, service) ==
    \E r \in 1..Len(returned) :
        /\ returned[r].item = item
        /\ returned[r].entity = entity
        /\ returned[r].service = service

RECURSIVE ReturnedOfNested(_, _, _, _, _)
\* the lists the calls for the nested nodes i..last of node returned, one
\* after the other
ReturnedOfNested(item, entity, node, i, last) ==
    IF i > last THEN <<>>
    ELSE ReturnedOf(item, entity, node.nested[i].service)
         \o ReturnedOfNested(item, entity, node, i + 1, last)

\* the call at position k of the stack has composed a start shape that is
\* not among the loaded shapes
IsWithoutShape(k) ==
    /\ Truthy(stack[k].startShape)
    /\ stack[k].startShape \notin shapeIds

\* C20: a call of recursiveValidate whose start shape is not among the
\* loaded shapes never has the validator invoked for its service and entity,
\* filters by no property, and holds as failures exactly what the calls for
\* the nested nodes it is past have returned, in the order of the nested
\* list and with nothing removed; each of those calls has been made.
C20_NodeWithoutShapeIsTransparent ==
    \A k \in 1..Len(stack) :
        IsWithoutShape(k) =>
            LET f == stack[k] IN
            /\ \A c \in 1..Len(calls) :
                  ~(/\ calls[c].item = itemIdx
                    /\ calls[c].entity = Entity.key
                    /\ calls[c].service = f.node.service)
            /\ f.properties = {}
            /\ \A i \in 1..(f.child - 1) :
                  HasReturned(itemIdx, Entity.key, f.node.nested[i].service)
            /\ f.failures = ReturnedOfNested(itemIdx, Entity.key, f.node, 1, f.child - 1)

\* the call for a service without a shape of the type is about to return
\* the failures of its nested service to a caller that has failures of its
\* own
C20_Witness ==
    /\ pc = "nested"
    /\ Len(stack) = 2
    /\ IsWithoutShape(2)
    /\ Len(stack[2].node.nested) > 0
    /\ stack[2].child > Len(stack[2].node.nested)
    /\ Len(stack[2].failures) > 0
    /\ \A i \in 1..Len(stack[2].failures) : stack[2].failures[i].service # stack[2].node.service
    /\ Len(stack[1].failures) > 0

-----------------------------------------------------------------------------
(* Claims about BooleanSemActFailure nodes, checked under SpecReport *)

\* the report is a flat, non-empty array of BooleanSemActFailure nodes
IsFlatSemActArray(r) ==
    /\ Len(r.items) > 0
    /\ \A k \in 1..Len(r.items) : r.items[k].type = "BooleanSemActFailure"

\* the BooleanSemActFailure template with the property and the code in the
\* place of its placeholders
SemActMessage(property, code) ==
    "Property " \o Or(property, "") \o " failed semantic action with code js:'"
        \o Or(code, "") \o "'"

\* C21: simplifying a flat array of n BooleanSemActFailure nodes, with or
\* without a ctx predicate, raises no error and yields exactly n failures, in
\* input order, each with the message of the BooleanSemActFailure template
\* in which the property of the failure and the code of the node are put.
C21_SemActYieldsOneFailureEach ==
    (pc = "done" /\ IsFlatSemActArray(rawReport)) =>
        /\ validation.error = NoError
        /\ Len(validation.simplified) = Len(rawReport.items)
        /\ \A k \in 1..Len(rawReport.items) :
              /\ validation.simplified[k].type = "BooleanSemActFailure"
              /\ validation.simplified[k].message =
                    SemActMessage(validation.simplified[k].property,
                                  rawReport.items[k].code)

-----------------------------------------------------------------------------
(* Claims about uniqueBy, checked under SpecUnique *)

RECURSIVE FirstOfTriple(_, _)
\* the items of fs at index i on that no earlier item of fs has the value of
\* each of the three keys in common with
FirstOfTriple(fs, i) ==
    IF i > Len(fs) THEN <<>>
    ELSE (IF \E h \in 1..(i - 1) : Triple(fs[h]) = Triple(fs[i])
          THEN <<>> ELSE <<fs[i]>>) \o FirstOfTriple(fs, i + 1)

\* C22: uniqueBy(items, ['property', 'shape', 'severity']) returns the items
\* in their order without exactly those that an earlier item of the list has
\* the same property, the same shape and the same severity as.
C22_DropsExactlyEqualTriples ==
    pc = "done" => uniqueKept = FirstOfTriple(uniqueItems, 1)

-----------------------------------------------------------------------------
(* Claims about the order of the validator calls, checked under Spec *)

RECURSIVE Preorder(_)
RECURSIVE PreorderFrom(_, _)
\* the services of the tree of node, a node before its nested nodes, the
\* nested nodes in the order of the nested list
Preorder(node) == <<node.service>> \o PreorderFrom(node, 1)
PreorderFrom(node, i) ==
    IF i > Len(node.nested) THEN <<>>
    ELSE Preorder(node.nested[i]) \o PreorderFrom(node, i + 1)

\* the position of the service in the pre-order of the hierarchy
PreIndex(service) ==
    CHOOSE i \in 1..Len(Preorder(hierarchy)) : Preorder(hierarchy)[i] = service

\* the position of the entity of the key in shapes.entries()
EntityPos(key) == CHOOSE i \in 1..Len(shapes) : shapes[i].key = key

\* the services the validator was called for, for the entity of the item
CalledFor(item, entity) ==
    {calls[c].service : c \in {c \in 1..Len(calls) : /\ calls[c].item = item
                                                      /\ calls[c].entity = entity}}

\* C23: the validator calls come one after the other in a fixed order:
\* items in input order, the entities of an item in the order of the shape
\* map, the services of an entity in the pre-order of the hierarchy, each
\* entity's calls in one run; while a call is outstanding every enclosing
\* call of recursiveValidate is past its own validator call and the calls
\* made for the entity are exactly those of the services before it in
\* pre-order that have a shape of its type; the root call of an earlier
\* entity of the item has returned.
C23_CallsOneByOneInOrder ==
    /\ \A c1, c2 \in 1..Len(calls) :
          c1 < c2 =>
            /\ calls[c1].item <= calls[c2].item
            /\ (calls[c1].item = itemIdx /\ calls[c2].item = itemIdx) =>
                  EntityPos(calls[c1].entity) <= EntityPos(calls[c2].entity)
            /\ (calls[c1].item = calls[c2].item /\ calls[c1].entity = calls[c2].entity) =>
                  /\ PreIndex(calls[c1].service) < PreIndex(calls[c2].service)
                  /\ \A c \in c1..c2 : /\ calls[c].item = calls[c1].item
                                        /\ calls[c].entity = calls[c1].entity
    /\ \A c \in 1..Len(calls) :
          (calls[c].item = itemIdx /\ EntityPos(calls[c].entity) < entityIdx) =>
              \E r \in 1..Len(returned) : /\ returned[r].root
                                          /\ returned[r].item = itemIdx
                                          /\ returned[r].entity = calls[c].entity
    /\ pc = "validating" =>
          /\ \A k \in 1..(Len(stack) - 1) :
                /\ Truthy(stack[k].startShape)
                /\ stack[k].startShape \in shapeIds =>
                      stack[k].node.service \in CalledFor(itemIdx, Entity.key)
          /\ CalledFor(itemIdx, Entity.key) =
                {t \in Range(Preorder(hierarchy)) :
                    /\ PreIndex(t) < PreIndex(Top.node.service)
                    /\ StartShape(t, removeUrls(Top.type)) \in shapeIds}
          /\ \A r \in 1..Len(returned) :
                ~(/\ returned[r].root
                  /\ returned[r].item = itemIdx
                  /\ returned[r].entity = Entity.key)

\* the validator is called for the last service in pre-order, for the
\* second entity of the second item, after the calls for the services before
\* it and for an earlier entity and an earlier item
C23_Witness ==
    /\ pc = "validating"
    /\ itemIdx = 2
    /\ entityIdx = 2
    /\ Len(stack) = 2
    /\ PreIndex(Top.node.service) = Len(Preorder(hierarchy))
    /\ Cardinality(CalledFor(itemIdx, Entity.key)) >= 3
    /\ \E c \in 1..Len(calls) : calls[c].item = 1
    /\ \E c \in 1..Len(calls) : calls[c].item = 2 /\ calls[c].entity # Entity.key

-----------------------------------------------------------------------------
(* Claims about the cover of the shapes of quadsToShapes, checked under    *)
(* SpecShapes                                                              *)

\* the quads of all shape stores together
ShapeQuads == UNION {Range(shapes[k].value) : k \in 1..Len(shapes)}

\* C24: every quad of the store is in the shape store of at least one root
\* key and the shape stores hold no other quad: together they are the store.
C24_ShapesCoverStore ==
    pc = "done" => ShapeQuads = Range(store)

\* a store of MaxTriples quads with a demoted component and two roots is
\* covered: the quad of the demoted subject is in a shape store
C24_Witness ==
    /\ pc = "done"
    /\ Len(store) = MaxTriples
    /\ Len(shapes) = 2
    /\ \E q \in Range(store) : q.subject.id \notin ShapeKeys
    /\ ShapeQuads = Range(store)

=============================================================================
